---------------------------- MODULE Spec2Model ----------------------------
(***************************************************************************)
(* A model of the train-bot worker: the fallback orchestrator              *)
(* (callWithFallback), the command handlers that use it, and the request   *)
(* boundary of the worker.                                                 *)
(*                                                                         *)
(* Optional values (T | undefined) are sequences of length at most one:    *)
(* Undefined is <<>>, Some(x) is <<x>>.  An empty result array is <<>>     *)
(* as well, so a remembered empty result is Some(<<>>), which differs      *)
(* from Undefined exactly as [] !== undefined does.                        *)
(***************************************************************************)
EXTENDS Integers, Sequences, FiniteSets, TLC

\* The longest adapter list handed to callWithFallback on its own.
MaxProviders == 3

\* The most words of a text handed to parseJourneyQuery on its own, before
\* its time suffix.
MaxWords == 4

\* The most services in a departures answer of a backend.
MaxServices == 3

Undefined == <<>>
Some(x) == <<x>>
IsDefined(o) == o # Undefined
TheValue(o) == o[1]

\* RailProvider.name of the two adapters of the repository; any further
\* adapter of a list is a stub that only has a distinct name.
RttName == "RealTimeTrains"
TransportApiName == "TransportAPI"
ProviderName(i) ==
    IF i = 1 THEN RttName
    ELSE IF i = 2 THEN TransportApiName
    ELSE "Stub" \o ToString(i)

MethodNames == {"searchStation", "getDepartures"}

\* StationSummary values an adapter may answer with.
Leeds == [name |-> "Leeds Rail Station", stationCode |-> "LDS"]
York == [name |-> "York", stationCode |-> "YRK"]
Selby == [name |-> "Selby", stationCode |-> "SBY"]

\* Departure values an adapter may answer with (the fields the handlers read).
Dep1 == [serviceUid |-> "W1", destinationName |-> "York", status |-> "ON TIME"]
Dep2 == [serviceUid |-> "W2", destinationName |-> "York", status |-> "LATE"]

\* What one adapter call may resolve to, per method: always an array
\* (RailProvider declares Promise<StationSummary[]> and Promise<Departure[]>).
SearchResults == {<<>>, <<Leeds>>, <<York, Selby>>}
DepartureResults == {<<>>, <<Dep1>>, <<Dep2, Dep1>>}
ResultsOf(m) == IF m = "searchStation" THEN SearchResults ELSE DepartureResults

\* What one adapter call may reject with: a ProviderError (fetchJson), any
\* other Error (fetch itself failing), or a thrown value that is no Error.
ProviderErrorValue == [isError |-> TRUE, name |-> "ProviderError", message |-> "error 500: <empty>"]
OtherErrorValue == [isError |-> TRUE, name |-> "TypeError", message |-> "fetch failed"]
NonErrorValue == [isError |-> FALSE, name |-> "", message |-> "timeout"]
Throwables == {ProviderErrorValue, OtherErrorValue, NonErrorValue}
\* The error field of the history entry of a call that did not throw.
NoError == [isError |-> FALSE, name |-> "", message |-> ""]

VARIABLES
    providers,      \* callWithFallback: the adapter list (names, in order)
    method,         \* callWithFallback: the method selector
    retryOnEmpty,   \* callWithFallback: the retry-on-empty option
    errors,         \* callWithFallback: const errors: string[]
    lastResult,     \* callWithFallback: let lastResult: T | undefined
    lastProvider,   \* callWithFallback: let lastProvider: string | undefined
    cur,            \* position of the for..of loop in providers
    fbPc,           \* where the invocation stands
    inflight,       \* positions of the adapters whose call has not settled
    fbReturn,       \* the FallbackResult the invocation returned, if any
    fbThrown,       \* the exception the invocation raised, if any
    started,        \* history: positions of the adapters invoked, in order
    calls,          \* history: the settled adapter calls, in order
    env,            \* fetch: the worker's bindings (Env)
    httpRequest,    \* fetch: the inbound request
    wPc,            \* where the worker stands in fetch and the handlers
    settings,       \* fetch: let settings: BotSettings
    ctxProviders,   \* fetch: let providers: RailProvider[] (context.providers)
    sent,           \* history: the sendMessage calls made, with their outcome
    jRequest,       \* handleJourney: let request: JourneyRequest
    originResult,   \* handleJourney: const originResult
    destinationResult, \* handleJourney: const destinationResult
    departureResult,   \* handleJourney: const departureResult
    escaped,        \* the exception that left handleUpdate, if any
    response,       \* the Response fetch answered with, if any
    fbLog,          \* history: the callWithFallback invocations of the handler
    qText,          \* parseJourneyQuery: the text argument
    qNow,           \* parseJourneyQuery: const now = new Date()
    qParsed,        \* parseJourneyQuery: what the call ended with, if it ended
    aProvider,      \* the adapter called: its name
    aMethod,        \* the adapter method called
    aArgs,          \* the arguments of the adapter call
    aPc,            \* where the adapter call stands
    aVariants,      \* searchStation (RTT): const variants
    aIdx,           \* searchStation (RTT): position of the for..of loop
    aFallbackStation, \* searchStation (RTT): let fallbackStation
    aRequests,      \* history: the requests made to the backend, in order
    aResponses,     \* history: the backend's responses, in order
    aOutcome,       \* what the adapter call ended with, if it ended
    aBackend        \* the casing the backend matches names in, if it is known

fbVars == <<providers, method, retryOnEmpty, errors, lastResult, lastProvider,
            cur, fbPc, inflight, fbReturn, fbThrown, started, calls>>

wVars == <<env, httpRequest, wPc, settings, ctxProviders, sent, jRequest,
           originResult, destinationResult, departureResult, escaped, response,
           fbLog>>

qVars == <<qText, qNow, qParsed>>

aVars == <<aProvider, aMethod, aArgs, aPc, aVariants, aIdx, aFallbackStation,
           aRequests, aResponses, aOutcome, aBackend>>

\* The state of the functions applied on their own.
pVars == <<qVars, aVars>>

vars == <<fbVars, wVars, pVars>>

--------------------------------------------------------------------------
\* callWithFallback

\* All adapter lists of at most n adapters with pairwise distinct names.
ProviderLists(n) ==
    LET names == {ProviderName(i) : i \in 1..n}
    IN  {s \in UNION {[1..k -> names] : k \in 0..n} :
            \A i, j \in 1..Len(s) : i # j => s[i] # s[j]}

\* `${provider.name}: ${message}` with
\* message = error instanceof Error ? error.message : String(error)
ErrorMessage(e) == e.message
Diagnostic(name, e) == <<name, ErrorMessage(e)>>

\* Mutant of PushError: a diagnostic only for thrown values that are Errors.
PushErrorOnlyErrors(errs, name, e) ==
    IF e.isError THEN Append(errs, <<name, e.message>>) ELSE errs

\* errors.push(`${provider.name}: ${message}`)
PushError(errs, name, e) == Append(errs, Diagnostic(name, e))

\* Mutant of Caught: a catch that handles ProviderError only and rethrows
\* anything else.
CaughtOnlyProviderError(e) == e.name = "ProviderError"

\* catch (error) around the adapter call: catches every thrown value.
Caught(e) == TRUE

\* An AllProvidersFailed exception, and any other exception value.
AllProvidersFailed(errs) == [name |-> "AllProvidersFailed", errors |-> errs]

\* Array.isArray(result): every adapter result is an array.
IsArray(result) == TRUE

\* Mutant of ReturnsAtOnce: the length of the result is not looked at.
ReturnsAtOnceOnlyWithoutRetry(result, retry) == ~retry

\* Mutant of ReturnsAtOnce: the retry-on-empty option is not looked at.
ReturnsAtOnceOnlyNonEmpty(result, retry) == Len(result) > 0

\* The two return statements inside the try block: whether a settled call
\* makes the invocation return at once.
ReturnsAtOnce(result, retry) ==
    IF IsArray(result)
    THEN Len(result) > 0 \/ ~retry
    ELSE ~retry

\* Mutant of LoopReturn: the result is attributed to the first adapter of
\* the list.
LoopReturnFirstListed(result, name, errs) ==
    [result |-> result, providerName |-> Some(providers[1]), errors |-> errs]

\* The FallbackResult of the return statements inside the loop.
LoopReturn(result, name, errs) ==
    [result |-> result, providerName |-> Some(name), errors |-> errs]

\* Mutant of AfterLoop: recorded diagnostics never raise.
AfterLoopNeverRaises(lastRes, lastProv, errs) ==
    IF IsDefined(lastRes)
    THEN [thrown |-> FALSE,
          value |-> [result |-> TheValue(lastRes), providerName |-> lastProv, errors |-> errs]]
    ELSE [thrown |-> FALSE,
          value |-> [result |-> <<>>, providerName |-> Undefined, errors |-> errs]]

\* Mutant of AfterLoop: the diagnostics are tested before the remembered result.
AfterLoopErrorsFirst(lastRes, lastProv, errs) ==
    IF Len(errs) > 0
    THEN [thrown |-> TRUE, value |-> [name |-> "AllProvidersFailed", errors |-> errs]]
    ELSE IF IsDefined(lastRes)
    THEN [thrown |-> FALSE,
          value |-> [result |-> TheValue(lastRes), providerName |-> lastProv, errors |-> errs]]
    ELSE [thrown |-> FALSE,
          value |-> [result |-> <<>>, providerName |-> Undefined, errors |-> errs]]

\* The code after the loop: what the invocation ends with.
AfterLoop(lastRes, lastProv, errs) ==
    IF IsDefined(lastRes)
    THEN [thrown |-> FALSE,
          value |-> [result |-> TheValue(lastRes), providerName |-> lastProv, errors |-> errs]]
    ELSE IF Len(errs) > 0
    THEN [thrown |-> TRUE, value |-> AllProvidersFailed(errs)]
    ELSE [thrown |-> FALSE,
          value |-> [result |-> <<>>, providerName |-> Undefined, errors |-> errs]]

\* The state at the first line of callWithFallback.
FbEnter(provs, m, retry) ==
    /\ providers' = provs
    /\ method' = m
    /\ retryOnEmpty' = retry
    /\ errors' = <<>>
    /\ lastResult' = Undefined
    /\ lastProvider' = Undefined
    /\ cur' = 1
    /\ fbPc' = "loop"
    /\ inflight' = {}
    /\ fbReturn' = Undefined
    /\ fbThrown' = Undefined
    /\ started' = <<>>
    /\ calls' = <<>>

\* When the loop may start the call of the adapter at position cur: the
\* await of the previous call has settled.
MayInvoke == fbPc = "loop" /\ cur <= Len(providers)

\* Mutant of FbInvoke: the call is started without being awaited, and the
\* loop moves on to the next adapter.
FbInvokeWithoutAwait ==
    /\ fbPc = "loop"
    /\ cur <= Len(providers)
    /\ inflight' = inflight \cup {cur}
    /\ started' = Append(started, cur)
    /\ cur' = cur + 1
    /\ UNCHANGED <<providers, method, retryOnEmpty, errors, lastResult,
                   lastProvider, fbPc, fbReturn, fbThrown, calls>>
    /\ UNCHANGED wVars
    /\ UNCHANGED pVars

\* for (const provider of providers) { try { await provider.<method>(...) :
\* the call of the adapter at cur starts and the invocation suspends on it.
FbInvoke ==
    /\ MayInvoke
    /\ inflight' = inflight \cup {cur}
    /\ started' = Append(started, cur)
    /\ fbPc' = "awaiting"
    /\ UNCHANGED <<providers, method, retryOnEmpty, errors, lastResult,
                   lastProvider, cur, fbReturn, fbThrown, calls>>
    /\ UNCHANGED wVars
    /\ UNCHANGED pVars

\* Mutant of Remembered: a candidate already remembered is kept.
RememberedKeepsFirst(previous, name) ==
    IF IsDefined(previous) THEN previous ELSE Some(name)

\* lastProvider = provider.name: the remembered candidate after an empty
\* success, whatever was remembered before.
Remembered(previous, name) == Some(name)

\* The awaited call resolves with result.
FbAdapterReturns(result) ==
    /\ fbPc = "awaiting"
    /\ cur \in inflight
    /\ inflight' = inflight \ {cur}
    /\ calls' = Append(calls, [pos |-> cur, name |-> providers[cur],
                               threw |-> FALSE, result |-> result,
                               error |-> NoError])
    /\ IF ReturnsAtOnce(result, retryOnEmpty)
       THEN /\ fbReturn' = Some(LoopReturn(result, providers[cur], errors))
            /\ fbPc' = "returned"
            /\ UNCHANGED <<lastResult, lastProvider, cur>>
       ELSE /\ lastResult' = Some(result)
            /\ lastProvider' = Remembered(lastProvider, providers[cur])
            /\ cur' = cur + 1
            /\ fbPc' = "loop"
            /\ UNCHANGED fbReturn
    /\ UNCHANGED <<providers, method, retryOnEmpty, errors, fbThrown, started>>
    /\ UNCHANGED wVars
    /\ UNCHANGED pVars

\* Mutant of FbAdapterThrows: after the catch block the loop calls the same
\* adapter again.
FbAdapterThrowsRetries(e) ==
    /\ fbPc = "awaiting"
    /\ cur \in inflight
    /\ inflight' = inflight \ {cur}
    /\ calls' = Append(calls, [pos |-> cur, name |-> providers[cur],
                               threw |-> TRUE, result |-> <<>>,
                               error |-> e])
    /\ errors' = PushError(errors, providers[cur], e)
    /\ fbPc' = "loop"
    /\ UNCHANGED <<providers, method, retryOnEmpty, lastResult, lastProvider,
                   cur, fbReturn, fbThrown, started>>
    /\ UNCHANGED wVars
    /\ UNCHANGED pVars

\* The awaited call rejects with e: the catch block.
FbAdapterThrows(e) ==
    /\ fbPc = "awaiting"
    /\ cur \in inflight
    /\ inflight' = inflight \ {cur}
    /\ calls' = Append(calls, [pos |-> cur, name |-> providers[cur],
                               threw |-> TRUE, result |-> <<>>,
                               error |-> e])
    /\ IF Caught(e)
       THEN /\ errors' = PushError(errors, providers[cur], e)
            /\ cur' = cur + 1
            /\ fbPc' = "loop"
            /\ UNCHANGED fbThrown
       ELSE /\ fbThrown' = Some(e)
            /\ fbPc' = "raised"
            /\ UNCHANGED <<errors, cur>>
    /\ UNCHANGED <<providers, method, retryOnEmpty, lastResult, lastProvider,
                   fbReturn, started>>
    /\ UNCHANGED wVars
    /\ UNCHANGED pVars

\* The loop is over: the code after it.
FbExhausted ==
    /\ fbPc = "loop"
    /\ cur > Len(providers)
    /\ LET end == AfterLoop(lastResult, lastProvider, errors)
       IN  IF end.thrown
           THEN /\ fbThrown' = Some(end.value)
                /\ fbPc' = "raised"
                /\ UNCHANGED fbReturn
           ELSE /\ fbReturn' = Some(end.value)
                /\ fbPc' = "returned"
                /\ UNCHANGED fbThrown
    /\ UNCHANGED <<providers, method, retryOnEmpty, errors, lastResult,
                   lastProvider, cur, inflight, started, calls>>
    /\ UNCHANGED wVars
    /\ UNCHANGED pVars

\* What the caller awaiting callWithFallback sees once it settled.
FbDone == fbPc \in {"returned", "raised"}
FbResult == TheValue(fbReturn)
FbException == TheValue(fbThrown)


--------------------------------------------------------------------------
\* Strings.  A string is the sequence of its whitespace-separated tokens,
\* with whether whitespace precedes the first token (lead) and follows the
\* last one (trail).  A token is a word, or a word that ends in a time of the
\* shape \d{1,2}:\d{2}: then text is what precedes the digits inside the token
\* ("" for a bare HH:MM).

W(t) == [kind |-> "word", text |-> t, hours |-> 0, minutes |-> 0]
T(prefix, h, m) == [kind |-> "time", text |-> prefix, hours |-> h, minutes |-> m]

Str(lead, tokens, trail) == [lead |-> lead, tokens |-> tokens, trail |-> trail]

\* value.trim()
Trim(s) == Str(FALSE, s.tokens, FALSE)

\* A string without surrounding whitespace, of the given tokens.
Trimmed(tokens) == Str(FALSE, tokens, FALSE)

\* toLowerCase / the i flag of the regular expressions, on the keywords.
LowerCase(t) ==
    CASE t \in {"TO", "To"} -> "to"
      [] t \in {"FROM", "From"} -> "from"
      [] t \in {"AT", "At"} -> "at"
      [] OTHER -> t

IsWord(tok, keywords) == tok.kind = "word" /\ LowerCase(tok.text) \in keywords

JourneyTimeError == "Couldn't parse journey time. Use HH:MM format."
JourneyPartsError == "Couldn't parse journey. Use '/journey origin to destination [at HH:MM]'."
JourneySidesError == "Origin and destination are both required."

\* new Date() values: the day and the time of day.
Clock(day, h, m) == [day |-> day, hours |-> h, minutes |-> m]

\* Mutant of ParseFailure: no exception, a request is returned instead.
ParseFailureAsRequest(msg) ==
    [ok |-> TRUE, message |-> msg, originQuery |-> <<W("Leeds")>>,
     destinationQuery |-> <<W("York")>>, when |-> Undefined]

\* throw new Error(msg) inside parseJourneyQuery
ParseFailure(msg) ==
    [ok |-> FALSE, message |-> msg, originQuery |-> <<>>,
     destinationQuery |-> <<>>, when |-> Undefined]

\* text.match(/(?:\bat\s+)?(\d{1,2}:\d{2})$/i): the text ends in a time, with
\* nothing after it.
HasTimeMatch(text) ==
    /\ ~text.trail
    /\ Len(text.tokens) >= 1
    /\ text.tokens[Len(text.tokens)].kind = "time"

\* text.slice(0, timeMatch.index).trim(): the text before the match, which
\* starts at a preceding "at" word when the time is a token of its own.
BeforeTime(text) ==
    LET tokens == text.tokens
        n == Len(tokens)
        last == tokens[n]
    IN  IF last.text # ""
        THEN Trimmed(Append(SubSeq(tokens, 1, n - 1), W(last.text)))
        ELSE IF n >= 2 /\ IsWord(tokens[n - 1], {"at"})
        THEN Trimmed(SubSeq(tokens, 1, n - 2))
        ELSE Trimmed(SubSeq(tokens, 1, n - 1))

\* Mutant of IsSplitPoint: every separator word between two spaces splits,
\* also one whose space before it was taken by the match before.
IsSplitPointOverlapping(s, i) ==
    /\ i >= 1
    /\ i <= Len(s.tokens)
    /\ IsWord(s.tokens[i], {"to", "->"})
    /\ (i > 1 \/ s.lead)
    /\ (i < Len(s.tokens) \/ s.trail)

\* Whether token i is matched by /\s+(?:to|->)\s+/i in the left-to-right scan
\* of split: it needs whitespace on both sides, and the whitespace before it
\* is gone when the token before it was matched.
RECURSIVE IsSplitPoint(_, _)
IsSplitPoint(s, i) ==
    /\ i >= 1
    /\ i <= Len(s.tokens)
    /\ IsWord(s.tokens[i], {"to", "->"})
    /\ (i > 1 \/ s.lead)
    /\ (i < Len(s.tokens) \/ s.trail)
    /\ ~IsSplitPoint(s, i - 1)

\* The token sequences between the split points, from token i on.
RECURSIVE SplitFrom(_, _, _)
SplitFrom(s, i, part) ==
    IF i > Len(s.tokens) THEN <<part>>
    ELSE IF IsSplitPoint(s, i)
    THEN <<part>> \o SplitFrom(s, i + 1, <<>>)
    ELSE SplitFrom(s, i + 1, Append(part, s.tokens[i]))

\* queryText.split(/\s+(?:to|->)\s+/i): the parts as strings.  Whitespace at
\* either end of the text stays with the first and the last part unless the
\* separator next to it took it.
SplitOnSeparator(s) ==
    LET pieces == SplitFrom(s, 1, <<>>)
        n == Len(s.tokens)
    IN  [k \in 1..Len(pieces) |->
            Str(k = 1 /\ s.lead /\ ~IsSplitPoint(s, 1),
                pieces[k],
                k = Len(pieces) /\ s.trail /\ ~IsSplitPoint(s, n))]

\* value.replace(/^(?:from|to)\s+/i, "").trim(): the tokens left.
stripFromKeyword(value) ==
    IF /\ ~value.lead
       /\ Len(value.tokens) >= 1
       /\ IsWord(value.tokens[1], {"from", "to"})
       /\ (Len(value.tokens) >= 2 \/ value.trail)
    THEN Tail(value.tokens)
    ELSE value.tokens

\* Mutant of TimeOutOfRange: the minutes are not looked at.
TimeOutOfRangeHoursOnly(h, m) == h > 23

\* hours > 23 || minutes > 59 (Number of a string of digits is never NaN)
TimeOutOfRange(h, m) == h > 23 \/ m > 59

\* Mutant of SetHours: the time of day of now is kept.
SetHoursKeepsNow(now, h, m) == now

\* when = new Date(now); when.setHours(hours, minutes, 0, 0)
SetHours(now, h, m) == [day |-> now.day, hours |-> h, minutes |-> m]

parseJourneyQuery(text, now) ==
    LET timed == HasTimeMatch(text)
        last == text.tokens[Len(text.tokens)]
    IN  IF timed /\ TimeOutOfRange(last.hours, last.minutes)
        THEN ParseFailure(JourneyTimeError)
        ELSE
          LET when == IF timed
                      THEN Some(SetHours(now, last.hours, last.minutes))
                      ELSE Undefined
              queryText == IF timed THEN BeforeTime(text) ELSE text
              parts == SplitOnSeparator(queryText)
          IN  IF Len(parts) # 2
              THEN ParseFailure(JourneyPartsError)
              ELSE
                LET originQuery == stripFromKeyword(parts[1])
                    destinationQuery == stripFromKeyword(parts[2])
                IN  IF originQuery = <<>> \/ destinationQuery = <<>>
                    THEN ParseFailure(JourneySidesError)
                    ELSE [ok |-> TRUE, message |-> "",
                          originQuery |-> originQuery,
                          destinationQuery |-> destinationQuery,
                          when |-> when]

--------------------------------------------------------------------------
\* Configuration: loadSettings and createProviders.  A binding of Env is
\* modelled by whether it is set to a non-empty string, which is all that
\* loadSettings tests.

LimitBindings == {Undefined, Some("3"), Some("many")}

Envs ==
    [TELEGRAM_BOT_TOKEN : BOOLEAN,
     RTT_USERNAME : BOOLEAN, RTT_PASSWORD : BOOLEAN,
     TRANSPORT_API_APP_ID : BOOLEAN, TRANSPORT_API_APP_KEY : BOOLEAN,
     DEFAULT_STATION_FILTER_LIMIT : LimitBindings]

\* parseInt(s, 10), Undefined standing for NaN.
ParseInt(s) ==
    CASE s = "3" -> Some(3)
      [] s = "5" -> Some(5)
      [] OTHER -> Undefined

DefaultLimitFallback == 5

NoSettings ==
    [telegramToken |-> FALSE, rttSettings |-> FALSE,
     transportSettings |-> FALSE, defaultResultLimit |-> 0]

\* Mutant of loadSettings: settings without a provider are accepted.
loadSettingsTokenOnly(e) ==
    IF ~e.TELEGRAM_BOT_TOKEN
    THEN [ok |-> FALSE, error |-> "Missing TELEGRAM_BOT_TOKEN binding",
          settings |-> NoSettings]
    ELSE [ok |-> TRUE, error |-> "",
          settings |->
              [telegramToken |-> TRUE,
               rttSettings |-> e.RTT_USERNAME /\ e.RTT_PASSWORD,
               transportSettings |-> e.TRANSPORT_API_APP_ID /\ e.TRANSPORT_API_APP_KEY,
               defaultResultLimit |-> DefaultLimitFallback]]

loadSettings(e) ==
    IF ~e.TELEGRAM_BOT_TOKEN
    THEN [ok |-> FALSE, error |-> "Missing TELEGRAM_BOT_TOKEN binding",
          settings |-> NoSettings]
    ELSE
      LET defaultLimit ==
              ParseInt(IF IsDefined(e.DEFAULT_STATION_FILTER_LIMIT)
                       THEN TheValue(e.DEFAULT_STATION_FILTER_LIMIT)
                       ELSE "5")
          rttSettings == e.RTT_USERNAME /\ e.RTT_PASSWORD
          transportSettings == e.TRANSPORT_API_APP_ID /\ e.TRANSPORT_API_APP_KEY
      IN  IF ~rttSettings /\ ~transportSettings
          THEN [ok |-> FALSE,
                error |-> "Configure at least one rail data provider (RTT or TransportAPI)",
                settings |-> NoSettings]
          ELSE [ok |-> TRUE, error |-> "",
                settings |->
                    [telegramToken |-> TRUE,
                     rttSettings |-> rttSettings,
                     transportSettings |-> transportSettings,
                     defaultResultLimit |->
                         IF IsDefined(defaultLimit)
                         THEN TheValue(defaultLimit)
                         ELSE DefaultLimitFallback]]

\* Mutant of createProviders: the TransportAPI adapter is pushed first.
createProvidersTransportFirst(st) ==
    (IF st.transportSettings THEN <<TransportApiName>> ELSE <<>>)
        \o (IF st.rttSettings THEN <<RttName>> ELSE <<>>)

createProviders(st) ==
    (IF st.rttSettings THEN <<RttName>> ELSE <<>>)
        \o (IF st.transportSettings THEN <<TransportApiName>> ELSE <<>>)

--------------------------------------------------------------------------
\* Inbound updates and outbound messages.

\* message.text: absent, the empty string, or a string of tokens (possibly
\* none: a string of whitespace only).
TextAbsent == [present |-> FALSE, empty |-> TRUE, tokens |-> <<>>]
TextEmpty == [present |-> TRUE, empty |-> TRUE, tokens |-> <<>>]
TextOf(tokens) == [present |-> TRUE, empty |-> FALSE, tokens |-> tokens]

JourneyTexts ==
    {<<W("/journey")>>,
     <<W("/journey"), W("Leeds"), W("York")>>,
     <<W("/journey"), W("Leeds"), W("to"), W("York")>>,
     <<W("/JOURNEY@TrainBot"), W("from"), W("Leeds"), W("->"), W("York"), W("at"), T("", 9, 15)>>,
     <<W("/journey"), W("Leeds"), W("to"), W("York"), W("at"), T("", 25, 61)>>}

StationsTexts ==
    {<<W("/stations")>>, <<W("/stations"), W("York")>>}

OtherTexts ==
    {<<W("/start")>>, <<W("/help")>>, <<W("/timetable")>>, <<W("hello")>>, <<>>}

\* What new Date() may answer while a request is handled.
Clocks == {Clock(1, 8, 30), Clock(2, 23, 59)}

\* TelegramUpdate values: without message, and with a message of each text.
Updates ==
    {[message |-> FALSE, text |-> TextAbsent]}
        \cup {[message |-> TRUE, text |-> t] :
                 t \in {TextAbsent, TextEmpty}
                     \cup {TextOf(k) : k \in JourneyTexts \cup StationsTexts \cup OtherTexts}}

NoUpdate == [message |-> FALSE, text |-> TextAbsent]

\* Requests: the method, whether the body is JSON, and the update it holds.
HttpRequests ==
    {[httpMethod |-> "GET", json |-> FALSE, update |-> NoUpdate],
     [httpMethod |-> "PUT", json |-> FALSE, update |-> NoUpdate],
     [httpMethod |-> "POST", json |-> FALSE, update |-> NoUpdate]}
        \cup {[httpMethod |-> "POST", json |-> TRUE, update |-> u] : u \in Updates}

\* trimmed.startsWith("/")
StartsWithSlash(tok) ==
    tok.text \in {"/start", "/help", "/stations", "/journey",
                  "/JOURNEY@TrainBot", "/timetable"}

\* (firstToken ?? "").split("@")[0].toLowerCase()
CommandName(tok) ==
    IF tok.text = "/JOURNEY@TrainBot" THEN "/journey" ELSE tok.text

extractCommand(text) ==
    IF text.tokens = <<>> \/ ~StartsWithSlash(text.tokens[1])
    THEN [command |-> "", argsText |-> text.tokens]
    ELSE [command |-> CommandName(text.tokens[1]), argsText |-> Tail(text.tokens)]

\* The text handed to sendMessage: its fixed wording and what is joined to it.
Message(text, detail) == [text |-> text, detail |-> detail]

StartText == "Hi! Send /journey followed by origin and destination"
HelpText == "Usage:"
UnknownCommandText == "Unknown command. Try /help for usage instructions."
StationsUsageText == "Please supply a station name, e.g. /stations York"
NoStationsText == "No stations found for that search term."
StationMatchesText == "Station matches"
StationsAllFailedText == "All data providers failed while searching for stations:"
StationsUnexpectedText == "Unexpected error while searching for stations."
JourneyUsageText == "Please provide origin and destination, e.g. /journey Bristol Temple Meads to Bath Spa"
OriginNotFoundText == "Couldn't find a station matching the origin."
DestinationNotFoundText == "Couldn't find a station matching the destination."
JourneyReplyText == "Next services from"
JourneyAllFailedText == "All data providers failed while fetching journey information:"
JourneyUnexpectedText == "Unexpected error while fetching journey information."

\* TelegramBot.sendMessage throws this when the response is not ok.
TelegramError == [isError |-> TRUE, name |-> "Error", message |-> "Telegram API error"]

\* Response of fetch.
Response(status, text) == [status |-> status, text |-> text]

--------------------------------------------------------------------------
\* The worker's fetch handler and the command handlers.

\* await context.bot.sendMessage(...) outside any try block: handleUpdate
\* ends after it, with the error of a failed send propagating.
SendOutside(msg, ok) ==
    /\ sent' = Append(sent, [message |-> msg, ok |-> ok])
    /\ escaped' = IF ok THEN escaped ELSE Some(TelegramError)
    /\ wPc' = "finished"

\* Mutant of CatchMessage: the diagnostics of the exception are left out.
CatchMessageWithoutDiagnostics(e, allFailedText, unexpectedText) ==
    IF e.name = "AllProvidersFailed"
    THEN Message(allFailedText, <<>>)
    ELSE Message(unexpectedText, <<>>)

\* The catch block of handleStations and handleJourney for exception e.
CatchMessage(e, allFailedText, unexpectedText) ==
    IF e.name = "AllProvidersFailed"
    THEN Message(allFailedText, e.errors)
    ELSE Message(unexpectedText, <<>>)

\* Mutant of CatchInTry: the catch block swallows the exception silently.
CatchInTrySilent(e, allFailedText, unexpectedText, ok) ==
    /\ sent' = sent
    /\ escaped' = escaped
    /\ wPc' = "finished"

\* callWithFallback raised e inside the try block: the catch block's send.
CatchInTry(e, allFailedText, unexpectedText, ok) ==
    /\ sent' = Append(sent, [message |-> CatchMessage(e, allFailedText, unexpectedText),
                             ok |-> ok])
    /\ escaped' = IF ok THEN escaped ELSE Some(TelegramError)
    /\ wPc' = "finished"

\* Mutant of SendInTry: a failed send inside the try block propagates like
\* one outside it.
SendInTryPropagates(msg, allFailedText, unexpectedText, ok1, ok2) ==
    /\ sent' = Append(sent, [message |-> msg, ok |-> ok1])
    /\ escaped' = IF ok1 THEN escaped ELSE Some(TelegramError)
    /\ wPc' = "finished"

\* await context.bot.sendMessage(...) inside the try block, the handler
\* ending after it: a failed send is caught and answered by the catch block's
\* send, whose own failure propagates.
SendInTry(msg, allFailedText, unexpectedText, ok1, ok2) ==
    /\ sent' =
          IF ok1
          THEN Append(sent, [message |-> msg, ok |-> TRUE])
          ELSE sent \o <<[message |-> msg, ok |-> FALSE],
                         [message |-> CatchMessage(TelegramError, allFailedText, unexpectedText),
                          ok |-> ok2]>>
    /\ escaped' = IF ok1 \/ ok2 THEN escaped ELSE Some(TelegramError)
    /\ wPc' = "finished"

\* The handler calls callWithFallback(context.providers, m, args, {retryOnEmpty: true}).
CallFallback(m, args) ==
    /\ FbEnter(ctxProviders, m, TRUE)
    /\ fbLog' = Append(fbLog, [method |-> m, args |-> args])

ArgsText == extractCommand(httpRequest.update.text).argsText

\* fetch up to the call of handleUpdate.
Fetch ==
    /\ wPc = "fetch"
    /\ IF httpRequest.httpMethod = "GET"
       THEN /\ response' = Some(Response(200, "train-bot worker ready"))
            /\ wPc' = "done"
            /\ UNCHANGED <<settings, ctxProviders>>
       ELSE IF httpRequest.httpMethod # "POST"
       THEN /\ response' = Some(Response(405, "Method not allowed"))
            /\ wPc' = "done"
            /\ UNCHANGED <<settings, ctxProviders>>
       ELSE IF ~httpRequest.json
       THEN /\ response' = Some(Response(400, "Invalid JSON payload"))
            /\ wPc' = "done"
            /\ UNCHANGED <<settings, ctxProviders>>
       ELSE LET loaded == loadSettings(env)
            IN  IF ~loaded.ok
                THEN /\ response' = Some(Response(500, "Server misconfigured"))
                     /\ wPc' = "done"
                     /\ UNCHANGED <<settings, ctxProviders>>
                ELSE /\ settings' = Some(loaded.settings)
                     /\ ctxProviders' = createProviders(loaded.settings)
                     /\ wPc' = "handleUpdate"
                     /\ UNCHANGED response
    /\ UNCHANGED pVars
    /\ UNCHANGED <<env, httpRequest, sent, jRequest, originResult,
                   destinationResult, departureResult, escaped, fbLog>>
    /\ UNCHANGED fbVars

\* handleUpdate up to the handler it dispatches to.
HandleUpdate(ok) ==
    /\ wPc = "handleUpdate"
    /\ LET text == httpRequest.update.text
           command == extractCommand(text).command
       IN  IF ~httpRequest.update.message \/ ~text.present \/ text.empty
           THEN wPc' = "finished" /\ UNCHANGED <<sent, escaped>>
           ELSE CASE command = "/start" -> SendOutside(Message(StartText, <<>>), ok)
                  [] command = "/help" -> SendOutside(Message(HelpText, <<>>), ok)
                  [] command = "/stations" ->
                         wPc' = "handleStations" /\ UNCHANGED <<sent, escaped>>
                  [] command = "/journey" ->
                         wPc' = "handleJourney" /\ UNCHANGED <<sent, escaped>>
                  [] OTHER -> SendOutside(Message(UnknownCommandText, <<>>), ok)
    /\ UNCHANGED pVars
    /\ UNCHANGED <<env, httpRequest, settings, ctxProviders, jRequest,
                   originResult, destinationResult, departureResult, response,
                   fbLog>>
    /\ UNCHANGED fbVars

\* handleStations up to the await of callWithFallback.
StationsStart(ok) ==
    /\ wPc = "handleStations"
    /\ LET query == ArgsText
       IN  IF query = <<>>
           THEN /\ SendOutside(Message(StationsUsageText, <<>>), ok)
                /\ UNCHANGED fbLog
                /\ UNCHANGED fbVars
           ELSE /\ CallFallback("searchStation", <<query, 5>>)
                /\ wPc' = "stationsSearch"
                /\ UNCHANGED <<sent, escaped>>
    /\ UNCHANGED pVars
    /\ UNCHANGED <<env, httpRequest, settings, ctxProviders, jRequest,
                   originResult, destinationResult, departureResult, response>>

\* errors.map((err) => `Fallback note: ${err}`)
FallbackNotes(errs) == [i \in 1..Len(errs) |-> <<"Fallback note", errs[i]>>]

\* handleStations from the settled callWithFallback to its end.
StationsAfterSearch(ok1, ok2) ==
    /\ wPc = "stationsSearch"
    /\ FbDone
    /\ IF fbPc = "raised"
       THEN CatchInTry(FbException, StationsAllFailedText, StationsUnexpectedText, ok1)
       ELSE IF Len(FbResult.result) = 0
       THEN SendInTry(Message(NoStationsText, <<>>),
                      StationsAllFailedText, StationsUnexpectedText, ok1, ok2)
       ELSE SendInTry(Message(StationMatchesText,
                              <<FbResult.providerName, FallbackNotes(FbResult.errors),
                                FbResult.result>>),
                      StationsAllFailedText, StationsUnexpectedText, ok1, ok2)
    /\ UNCHANGED pVars
    /\ UNCHANGED <<env, httpRequest, settings, ctxProviders, jRequest,
                   originResult, destinationResult, departureResult, response,
                   fbLog>>
    /\ UNCHANGED fbVars

\* handleJourney up to the await of the origin search.
JourneyStart(ok, now) ==
    /\ wPc = "handleJourney"
    /\ LET query == ArgsText
           parsed == parseJourneyQuery(Trimmed(query), now)
       IN  IF query = <<>>
           THEN /\ SendOutside(Message(JourneyUsageText, <<>>), ok)
                /\ UNCHANGED <<jRequest, fbLog>>
                /\ UNCHANGED fbVars
           ELSE IF ~parsed.ok
           THEN /\ SendOutside(Message(parsed.message, <<>>), ok)
                /\ UNCHANGED <<jRequest, fbLog>>
                /\ UNCHANGED fbVars
           ELSE /\ jRequest' = Some([originQuery |-> parsed.originQuery,
                                     destinationQuery |-> parsed.destinationQuery,
                                     when |-> parsed.when])
                /\ CallFallback("searchStation", <<parsed.originQuery, 3>>)
                /\ wPc' = "originSearch"
                /\ UNCHANGED <<sent, escaped>>
    /\ UNCHANGED pVars
    /\ UNCHANGED <<env, httpRequest, settings, ctxProviders, originResult,
                   destinationResult, departureResult, response>>

\* Mutant of JourneyAfterOrigin: an origin search without candidates ends the
\* handler before the destination search.
JourneyAfterOriginStopsOnEmpty(ok) ==
    /\ wPc = "originSearch"
    /\ FbDone
    /\ IF fbPc = "raised"
       THEN /\ CatchInTry(FbException, JourneyAllFailedText, JourneyUnexpectedText, ok)
            /\ UNCHANGED <<originResult, fbLog>>
            /\ UNCHANGED fbVars
       ELSE IF Len(FbResult.result) = 0
       THEN /\ originResult' = Some(FbResult)
            /\ SendOutside(Message(OriginNotFoundText, <<>>), ok)
            /\ UNCHANGED fbLog
            /\ UNCHANGED fbVars
       ELSE /\ originResult' = Some(FbResult)
            /\ CallFallback("searchStation", <<TheValue(jRequest).destinationQuery, 3>>)
            /\ wPc' = "destinationSearch"
            /\ UNCHANGED <<sent, escaped>>
    /\ UNCHANGED pVars
    /\ UNCHANGED <<env, httpRequest, settings, ctxProviders, jRequest,
                   destinationResult, departureResult, response>>

\* handleJourney from the settled origin search to the await of the
\* destination search.
JourneyAfterOrigin(ok) ==
    /\ wPc = "originSearch"
    /\ FbDone
    /\ IF fbPc = "raised"
       THEN /\ CatchInTry(FbException, JourneyAllFailedText, JourneyUnexpectedText, ok)
            /\ UNCHANGED <<originResult, fbLog>>
            /\ UNCHANGED fbVars
       ELSE /\ originResult' = Some(FbResult)
            /\ CallFallback("searchStation", <<TheValue(jRequest).destinationQuery, 3>>)
            /\ wPc' = "destinationSearch"
            /\ UNCHANGED <<sent, escaped>>
    /\ UNCHANGED pVars
    /\ UNCHANGED <<env, httpRequest, settings, ctxProviders, jRequest,
                   destinationResult, departureResult, response>>

\* Mutant of ResolutionFailure: the destination is checked before the origin.
ResolutionFailureDestinationFirst(originCandidates, destinationCandidates) ==
    IF Len(destinationCandidates) = 0 THEN Some("Couldn't find a station matching the destination.")
    ELSE IF Len(originCandidates) = 0 THEN Some("Couldn't find a station matching the origin.")
    ELSE Undefined

\* if (!originCandidates.length) ... if (!destinationCandidates.length) ... :
\* the message of the side without candidates, the origin checked first.
ResolutionFailure(originCandidates, destinationCandidates) ==
    IF Len(originCandidates) = 0 THEN Some(OriginNotFoundText)
    ELSE IF Len(destinationCandidates) = 0 THEN Some(DestinationNotFoundText)
    ELSE Undefined

\* handleJourney from the settled destination search to the await of the
\* departures call, or to its end when a side has no candidate.
JourneyAfterDestination(ok1, ok2) ==
    /\ wPc = "destinationSearch"
    /\ FbDone
    /\ IF fbPc = "raised"
       THEN /\ CatchInTry(FbException, JourneyAllFailedText, JourneyUnexpectedText, ok1)
            /\ UNCHANGED <<destinationResult, fbLog>>
            /\ UNCHANGED fbVars
       ELSE LET originCandidates == TheValue(originResult).result
                destinationCandidates == FbResult.result
                failure == ResolutionFailure(originCandidates, destinationCandidates)
            IN  /\ destinationResult' = Some(FbResult)
                /\ IF IsDefined(failure)
                   THEN /\ SendInTry(Message(TheValue(failure), <<>>),
                                     JourneyAllFailedText, JourneyUnexpectedText, ok1, ok2)
                        /\ UNCHANGED fbLog
                        /\ UNCHANGED fbVars
                   ELSE /\ CallFallback("getDepartures",
                                        <<originCandidates[1].stationCode,
                                          destinationCandidates[1].stationCode,
                                          TheValue(settings).defaultResultLimit,
                                          TheValue(jRequest).when>>)
                        /\ wPc' = "departures"
                        /\ UNCHANGED <<sent, escaped>>
    /\ UNCHANGED pVars
    /\ UNCHANGED <<env, httpRequest, settings, ctxProviders, jRequest,
                   originResult, departureResult, response>>

\* name.replace(/\bRail (Station|Stn)\b/gi, "").trim()
tidyStationName(name) ==
    IF name = "Leeds Rail Station" THEN "Leeds" ELSE name

\* formatDepartures: the header's inputs and the services listed.
formatDepartures(originName, destinationName, departures, when) ==
    [origin |-> originName, destination |-> destinationName,
     when |-> when, services |-> departures]

\* candidates.slice(1, 3) of formatStationCandidates
formatStationCandidates(candidates) ==
    IF Len(candidates) <= 1 THEN <<>>
    ELSE SubSeq(candidates, 2, IF Len(candidates) < 3 THEN Len(candidates) ELSE 3)

formatAlternatives(originCandidates, destinationCandidates) ==
    <<formatStationCandidates(originCandidates),
      formatStationCandidates(destinationCandidates)>>

\* Mutant of Coalesce: the preference order is reversed.
CoalesceLastFirst(a, b, c) == IF IsDefined(c) THEN c ELSE IF IsDefined(b) THEN b ELSE a

\* a ?? b ?? c on optional provider names
Coalesce(a, b, c) == IF IsDefined(a) THEN a ELSE IF IsDefined(b) THEN b ELSE c

\* buildProviderNote: the name shown as data source, if any; an absent or
\* empty name gives no note.
buildProviderNote(providerName) ==
    IF IsDefined(providerName) /\ TheValue(providerName) # ""
    THEN providerName
    ELSE Undefined

\* Mutant of JourneyDiagnostics: the diagnostics of the departures call come
\* first.
JourneyDiagnosticsDeparturesFirst(originErrors, destinationErrors, departureErrors) ==
    FallbackNotes(departureErrors \o originErrors \o destinationErrors)

\* [...originResult.errors, ...destinationResult.errors, ...departureResult.errors]
\* mapped to the lines presented.
JourneyDiagnostics(originErrors, destinationErrors, departureErrors) ==
    FallbackNotes(originErrors \o destinationErrors \o departureErrors)

\* handleJourney from the settled departures call to its end.
JourneyAfterDepartures(ok1, ok2) ==
    /\ wPc = "departures"
    /\ FbDone
    /\ IF fbPc = "raised"
       THEN /\ CatchInTry(FbException, JourneyAllFailedText, JourneyUnexpectedText, ok1)
            /\ UNCHANGED departureResult
       ELSE LET originRes == TheValue(originResult)
                destinationRes == TheValue(destinationResult)
                origin == originRes.result[1]
                destination == destinationRes.result[1]
                messageBody ==
                    formatDepartures(tidyStationName(origin.name),
                                     tidyStationName(destination.name),
                                     FbResult.result, TheValue(jRequest).when)
                suffix == formatAlternatives(originRes.result, destinationRes.result)
                providerNote ==
                    buildProviderNote(Coalesce(FbResult.providerName,
                                               originRes.providerName,
                                               destinationRes.providerName))
                diagnostics ==
                    JourneyDiagnostics(originRes.errors, destinationRes.errors,
                                       FbResult.errors)
            IN  /\ departureResult' = Some(FbResult)
                /\ SendInTry(Message(JourneyReplyText,
                                     <<messageBody, suffix, providerNote, diagnostics>>),
                             JourneyAllFailedText, JourneyUnexpectedText, ok1, ok2)
    /\ UNCHANGED pVars
    /\ UNCHANGED <<env, httpRequest, settings, ctxProviders, jRequest,
                   originResult, destinationResult, response, fbLog>>
    /\ UNCHANGED fbVars

\* fetch from the settled handleUpdate to its Response.
Respond ==
    /\ wPc = "finished"
    /\ response' = Some(IF IsDefined(escaped)
                        THEN Response(500, "Failed to process update")
                        ELSE Response(200, "ok"))
    /\ wPc' = "done"
    /\ UNCHANGED pVars
    /\ UNCHANGED <<env, httpRequest, settings, ctxProviders, sent, jRequest,
                   originResult, destinationResult, departureResult, escaped,
                   fbLog>>
    /\ UNCHANGED fbVars

--------------------------------------------------------------------------
\* The adapters: RttProvider and TransportApiProvider against their backend.

\* A query string of searchStation: its letters (base, case set aside), how
\* they are cased, whether every word is one letter long (then title case is
\* upper case), whether some run of whitespace inside it is longer than one
\* character, and whether whitespace surrounds it.  The empty base is a query
\* of whitespace only.
Query(base, casing, short, wide, padded) ==
    [base |-> base, casing |-> casing, short |-> short, wide |-> wide,
     padded |-> padded]

\* query.trim()
TrimQuery(q) == [q EXCEPT !.padded = FALSE]

\* Mutant of toLowerCase: the string is left as it is.
toLowerCaseKeeps(q) == q

\* query.toUpperCase() and query.toLowerCase(): a string without letters
\* (casing "none") is left as it is.
toUpperCase(q) == [q EXCEPT !.casing = IF @ = "none" THEN "none" ELSE "upper"]
toLowerCase(q) == [q EXCEPT !.casing = IF @ = "none" THEN "none" ELSE "lower"]

\* query.split(/\s+/).filter(Boolean).map(word => first letter upper, rest
\* lower).join(" "): the words are joined by single spaces.
TitleCase(q) ==
    [q EXCEPT !.casing = IF @ = "none" THEN "none"
                         ELSE IF q.short THEN "upper" ELSE "title",
              !.wide = FALSE]

\* Array.from(new Set(seq)): the first occurrence of each value, in order.
Distinct(seq) ==
    LET keep == {i \in 1..Len(seq) : \A j \in 1..(i - 1) : seq[j] # seq[i]}
        RECURSIVE Take(_)
        Take(i) ==
            IF i > Len(seq) THEN <<>>
            ELSE IF i \in keep THEN <<seq[i]>> \o Take(i + 1)
            ELSE Take(i + 1)
    IN  Take(1)

\* Mutant of buildSearchVariants: the upper-cased variant comes before the
\* lower-cased one.
buildSearchVariantsUpperFirst(query) ==
    Distinct(<<query, toUpperCase(query), toLowerCase(query), TitleCase(query)>>)

\* RttProvider.buildSearchVariants; the final filter(Boolean) drops nothing,
\* the query being non-empty.
buildSearchVariants(query) ==
    Distinct(<<query, toLowerCase(query), toUpperCase(query), TitleCase(query)>>)

\* Entries of payload.locations / payload.member and the payload.location
\* object: the code and the names they carry, if any.
Location(crs, name, description) ==
    [crs |-> crs, name |-> name, description |-> description]

LocYork == Location(Some("YRK"), Some("York"), Undefined)
LocYard == Location(Some("YRY"), Undefined, Some("York Yard"))
LocNoCode == Location(Undefined, Some("Yorkshire"), Undefined)
LocEmptyCode == Location(Some(""), Some("Selby"), Undefined)
LocEmptyName == Location(Some("SBY"), Some(""), Some("Selby"))

StationOf(name, code) == [name |-> name, stationCode |-> code]

\* RttProvider.extractStations without the limit: the entries that carry a
\* code and a name, name falling back to description.
RECURSIVE ExtractAll(_)
ExtractAll(locations) ==
    IF locations = <<>> THEN <<>>
    ELSE LET item == Head(locations)
             code == item.crs
             name == IF IsDefined(item.name) THEN item.name ELSE item.description
         IN  IF ~IsDefined(code) \/ TheValue(code) = ""
                \/ ~IsDefined(name) \/ TheValue(name) = ""
             THEN ExtractAll(Tail(locations))
             ELSE <<StationOf(TheValue(name), TheValue(code))>>
                      \o ExtractAll(Tail(locations))

\* The loop stops once matches.length >= limit: at least one match is kept.
FirstUpTo(seq, limit) ==
    IF Len(seq) = 0 THEN <<>>
    ELSE SubSeq(seq, 1, IF limit < 1 THEN 1
                        ELSE IF Len(seq) < limit THEN Len(seq) ELSE limit)

\* RttProvider.extractStations(locations, limit)
extractStations(locations, limit) == FirstUpTo(ExtractAll(locations), limit)

\* Mutant of extractFallbackStation: an empty name gives way to description.
extractFallbackStationAnyName(location) ==
    IF ~IsDefined(location) THEN Undefined
    ELSE LET loc == TheValue(location)
             nameCandidate == IF IsDefined(loc.name) /\ TheValue(loc.name) # ""
                              THEN loc.name ELSE loc.description
         IN  IF /\ IsDefined(loc.crs) /\ TheValue(loc.crs) # ""
                /\ IsDefined(nameCandidate) /\ TheValue(nameCandidate) # ""
             THEN Some(StationOf(TheValue(nameCandidate), TheValue(loc.crs)))
             ELSE Undefined

\* RttProvider.extractFallbackStation(location)
extractFallbackStation(location) ==
    IF ~IsDefined(location) THEN Undefined
    ELSE LET loc == TheValue(location)
             nameCandidate == IF IsDefined(loc.name) THEN loc.name ELSE loc.description
         IN  IF /\ IsDefined(loc.crs) /\ TheValue(loc.crs) # ""
                /\ IsDefined(nameCandidate) /\ TheValue(nameCandidate) # ""
             THEN Some(StationOf(TheValue(nameCandidate), TheValue(loc.crs)))
             ELSE Undefined

\* A parsed response body: the properties the adapters read, absent ones
\* Undefined; isNull for the JSON text null, whose properties cannot be read.
Payload(isNull, locations, location, services, member, departures) ==
    [isNull |-> isNull, locations |-> locations, location |-> location,
     services |-> services, member |-> member, departures |-> departures]

\* {} as T
EmptyPayload == Payload(FALSE, Undefined, Undefined, Undefined, Undefined, Undefined)
NullPayload == Payload(TRUE, Undefined, Undefined, Undefined, Undefined, Undefined)

\* What the backend answers to one request: nothing (fetch rejects), or a
\* status with a body that JSON.parse accepts or not.
NoResponse == [reached |-> FALSE, status |-> 0, parsable |-> FALSE, payload |-> EmptyPayload]
HttpResponse(status, parsable, payload) ==
    [reached |-> TRUE, status |-> status, parsable |-> parsable, payload |-> payload]

\* response.ok
IsOk(status) == status >= 200 /\ status <= 299

\* new ProviderError(`${name} error ${status}: ...`) and
\* new ProviderError(`${name} returned invalid JSON: ...`)
StatusError(name, status) ==
    [isError |-> TRUE, name |-> "ProviderError",
     message |-> name \o " error " \o ToString(status)]
InvalidJsonError(name) ==
    [isError |-> TRUE, name |-> "ProviderError",
     message |-> name \o " returned invalid JSON"]
\* The TypeError of reading a property of null.
NullPropertyError ==
    [isError |-> TRUE, name |-> "TypeError",
     message |-> "Cannot read properties of null"]

Returned(value) == [thrown |-> FALSE, value |-> value, error |-> NoError]
Thrown(e) == [thrown |-> TRUE, value |-> <<>>, error |-> e]

\* Mutant of fetchJson: the 404 test comes after the response.ok test.
fetchJsonOkFirst(name, resp) ==
    IF ~resp.reached THEN Thrown(OtherErrorValue)
    ELSE IF ~IsOk(resp.status) THEN Thrown(StatusError(name, resp.status))
    ELSE IF resp.status = 404 THEN Returned(EmptyPayload)
    ELSE IF ~resp.parsable THEN Thrown(InvalidJsonError(name))
    ELSE Returned(resp.payload)

\* RttProvider.fetchJson and TransportApiProvider.fetchJson (they differ in
\* the request headers and in the name inside the messages): what the await
\* ends with for the response resp.
fetchJson(name, resp) ==
    IF ~resp.reached THEN Thrown(OtherErrorValue)
    ELSE IF resp.status = 404 THEN Returned(EmptyPayload)
    ELSE IF ~IsOk(resp.status) THEN Thrown(StatusError(name, resp.status))
    ELSE IF ~resp.parsable THEN Thrown(InvalidJsonError(name))
    ELSE Returned(resp.payload)

\* a ?? [] on an optional array
OrEmpty(o) == IF IsDefined(o) THEN TheValue(o) ELSE <<>>

\* limit = 5: the default of an absent limit
DefaultLimit == 5
LimitOf(limit) == IF IsDefined(limit) THEN TheValue(limit) ELSE DefaultLimit

\* array.slice(0, limit) for an integer limit that is not negative
Slice(seq, limit) == SubSeq(seq, 1, IF Len(seq) < limit THEN Len(seq) ELSE limit)

\* Times of day as the backend writes them: with a colon ("09:15") or
\* without ("0915").
TimeText(colon, h, m) == [colon |-> colon, hours |-> h, minutes |-> m]

\* x is truthy, for an optional string x.
Truthy(x) == IsDefined(x) /\ TheValue(x) # ""

\* The callPoints / calling_at property of a payload entry: an array of
\* stops, or a value that is no array.
StopArray(stops) == [isArray |-> TRUE, stops |-> stops]
NotAnArray == [isArray |-> FALSE, stops |-> <<>>]

\* An entry of callPoints (RTT): its location object, if any, and its booked
\* arrival and pass times.
RttStop(location, arrival, pass) ==
    [location |-> location, gbttBookedArrival |-> arrival, gbttBookedPass |-> pass]

\* The locationDetail of an entry of payload.services (RTT): the properties
\* getDepartures, deriveStatus and parseCallingPoints read.
Detail(aimed, isCancelled, displayAs, actual, realtime, callPoints) ==
    [gbttBookedDeparture |-> aimed, isCancelled |-> isCancelled,
     displayAs |-> displayAs, realtimeDepartureActual |-> actual,
     realtimeDeparture |-> realtime, callPoints |-> callPoints]

\* service.locationDetail ?? {}
NoDetail == Detail(Undefined, FALSE, Undefined, Undefined, Undefined, Undefined)

\* An entry of payload.services (RTT).
RttService(uid, runDate, locationDetail) ==
    [serviceUid |-> uid, runDate |-> runDate, locationDetail |-> locationDetail]

\* parseRttDate(runDate, time): new Date(`${runDate}T${time}:00`), which is an
\* invalid date (undefined) unless the time is written with a colon.
parseRttDate(runDate, time) ==
    IF time.colon
    THEN Some([day |-> runDate, hours |-> time.hours, minutes |-> time.minutes])
    ELSE Undefined

\* a < b on Date values
Earlier(a, b) ==
    \/ a.day < b.day
    \/ a.day = b.day /\ a.hours < b.hours
    \/ a.day = b.day /\ a.hours = b.hours /\ a.minutes < b.minutes

\* The test of the continue statement of RttProvider.getDepartures.
RttSkips(service, when) ==
    LET detail == IF IsDefined(service.locationDetail)
                  THEN TheValue(service.locationDetail) ELSE NoDetail
        aimed == detail.gbttBookedDeparture
    IN  /\ IsDefined(when)
        /\ IsDefined(service.runDate)
        /\ IsDefined(aimed)
        /\ LET runDateTime == parseRttDate(TheValue(service.runDate), TheValue(aimed))
           IN  IsDefined(runDateTime) /\ Earlier(TheValue(runDateTime), TheValue(when))

\* String(value).toUpperCase() on the display texts of the backend.
UpperCase(text) ==
    CASE text = "call" -> "CALL"
      [] text = "Starts" -> "STARTS"
      [] OTHER -> text

\* deriveStatus(detail) of rtt.ts
deriveStatus(detail) ==
    IF detail.isCancelled THEN "CANCELLED"
    ELSE IF Truthy(detail.displayAs) THEN UpperCase(TheValue(detail.displayAs))
    ELSE IF Truthy(detail.realtimeDepartureActual)
    THEN "DEPARTED " \o TheValue(detail.realtimeDepartureActual)
    ELSE IF Truthy(detail.realtimeDeparture)
    THEN "EXPECTED " \o TheValue(detail.realtimeDeparture)
    ELSE "UNKNOWN"

\* a ?? b
Coalesce2(a, b) == IF IsDefined(a) THEN a ELSE b
\* a ?? "" on an optional string
OrBlank(a) == IF IsDefined(a) THEN TheValue(a) ELSE ""

\* A CallingPoint.
CallingPoint(stationName, stationCode, aimedArrivalTime) ==
    [stationName |-> stationName, stationCode |-> stationCode,
     aimedArrivalTime |-> aimedArrivalTime]

\* Mutant of parseCallingPoints: stops without a location are left out.
parseCallingPointsLocated(detail) ==
    IF ~IsDefined(detail.callPoints) \/ ~TheValue(detail.callPoints).isArray THEN <<>>
    ELSE LET raw == SelectSeq(TheValue(detail.callPoints).stops,
                              LAMBDA point : IsDefined(point.location))
         IN  [i \in 1..Len(raw) |->
                 CallingPoint(OrBlank(TheValue(raw[i].location).description),
                              OrBlank(TheValue(raw[i].location).crs),
                              Coalesce2(raw[i].gbttBookedArrival, raw[i].gbttBookedPass))]

\* parseCallingPoints(detail) of rtt.ts
parseCallingPoints(detail) ==
    IF ~IsDefined(detail.callPoints) \/ ~TheValue(detail.callPoints).isArray THEN <<>>
    ELSE LET raw == TheValue(detail.callPoints).stops
         IN  [i \in 1..Len(raw) |->
                 LET location == IF IsDefined(raw[i].location)
                                 THEN TheValue(raw[i].location)
                                 ELSE Location(Undefined, Undefined, Undefined)
                 IN  CallingPoint(OrBlank(location.description), OrBlank(location.crs),
                                  Coalesce2(raw[i].gbttBookedArrival,
                                            raw[i].gbttBookedPass))]

\* A Departure: the fields both adapters fill that the properties read.
Departure(serviceUid, aimedDepartureTime, status, callingPoints) ==
    [serviceUid |-> serviceUid, aimedDepartureTime |-> aimedDepartureTime,
     status |-> status, callingPoints |-> callingPoints]

\* The Departure RttProvider.getDepartures pushes for a service.
RttDeparture(service) ==
    LET detail == IF IsDefined(service.locationDetail)
                  THEN TheValue(service.locationDetail) ELSE NoDetail
    IN  Departure(OrBlank(service.serviceUid), detail.gbttBookedDeparture,
                  deriveStatus(detail), parseCallingPoints(detail))

\* Mutant of RttDepartures: the services are truncated before the
\* requested-time filter.
RttDeparturesSliceFirst(payload, limit, when) ==
    LET first == Slice(OrEmpty(payload.services), LimitOf(limit))
        kept == SelectSeq(first, LAMBDA s : ~RttSkips(s, when))
    IN  [i \in 1..Len(kept) |-> RttDeparture(kept[i])]

\* RttProvider.getDepartures from the payload on.
RttDepartures(payload, limit, when) ==
    LET services == OrEmpty(payload.services)
        kept == SelectSeq(services, LAMBDA s : ~RttSkips(s, when))
    IN  Slice([i \in 1..Len(kept) |-> RttDeparture(kept[i])], LimitOf(limit))

\* An entry of calling_at (TransportAPI).
TaStop(name, code, arrival, pass) ==
    [station_name |-> name, station_code |-> code, aimed_arrival_time |-> arrival,
     aimed_pass_time |-> pass]

\* An entry of payload.departures.all (TransportAPI): the properties
\* parseDeparture reads, station_detail.calling_at as detail_calling_at.
TaService(uid, aimed, status, detail_calling_at, calling_at) ==
    [train_uid |-> uid, aimed_departure_time |-> aimed, status |-> status,
     detail_calling_at |-> detail_calling_at, calling_at |-> calling_at]

\* parseDeparture(item) of transportApi.ts
parseDeparture(data) ==
    LET callingPointsData == Coalesce2(data.detail_calling_at, data.calling_at)
        raw == IF IsDefined(callingPointsData) /\ TheValue(callingPointsData).isArray
               THEN TheValue(callingPointsData).stops ELSE <<>>
        callingPoints ==
            [i \in 1..Len(raw) |->
                CallingPoint(OrBlank(raw[i].station_name), OrBlank(raw[i].station_code),
                             Coalesce2(raw[i].aimed_arrival_time,
                                       raw[i].aimed_pass_time))]
    IN  Departure(OrBlank(data.train_uid), data.aimed_departure_time,
                  OrBlank(data.status), callingPoints)

\* TransportApiProvider.getDepartures from the payload on.
TaDepartures(payload, limit) ==
    LET departures == OrEmpty(payload.departures)
        first == Slice(departures, LimitOf(limit))
    IN  [i \in 1..Len(first) |-> parseDeparture(first[i])]

\* TransportApiProvider.searchStation from the payload on: the members whose
\* station_code and name are strings.
TaStations(payload, limit) ==
    LET members == OrEmpty(payload.member)
        typed == SelectSeq(members, LAMBDA m : IsDefined(m.crs) /\ IsDefined(m.name))
    IN  FirstUpTo([i \in 1..Len(typed) |->
                      StationOf(TheValue(typed[i].name), TheValue(typed[i].crs))],
                  LimitOf(limit))


\* The arguments of an adapter call: query and limit for searchStation,
\* originCrs, destinationCrs, limit and when for getDepartures.
SearchArgs(query, limit) ==
    [query |-> query, limit |-> limit, originCrs |-> "",
     destinationCrs |-> Undefined, when |-> Undefined]
DepartureArgs(originCrs, destinationCrs, limit, when) ==
    [query |-> Query("", "none", FALSE, FALSE, FALSE), limit |-> limit,
     originCrs |-> originCrs, destinationCrs |-> destinationCrs, when |-> when]

\* A request to the backend: the endpoint and what the path or the query
\* string carries.
Request(endpoint, key) == [endpoint |-> endpoint, key |-> key]

\* await this.fetchJson(...): the request goes out and the call suspends.
Issue(request) ==
    /\ aRequests' = Append(aRequests, request)
    /\ aPc' = "fetch"

\* The adapter call ends with outcome.
Finish(outcome) ==
    /\ aOutcome' = Some(outcome)
    /\ aPc' = "done"

\* The response to the request in flight arrives.
Arrives(resp) ==
    /\ aPc = "fetch"
    /\ aResponses' = Append(aResponses, resp)

\* The name a backend that matches names in one casing answers to: the
\* letters of the query in that casing, its words one space apart (for
\* one-letter words title case is upper case).
BackendName(casing, query) ==
    Query(query.base, IF casing = "title" /\ query.short THEN "upper" ELSE casing,
          query.short, FALSE, FALSE)

\* The station of that name.
BackendStation == Location(Some("YRK"), Some("York"), Undefined)

\* What a case-sensitive backend answers to a search for text: the station
\* if text is its name, and else nothing, as a 404 or as a body without
\* matches.
CaseSensitiveAnswers(casing, text) ==
    IF text = BackendName(casing, text)
    THEN {HttpResponse(200, TRUE,
                       Payload(FALSE, Some(<<BackendStation>>), Undefined, Undefined,
                               Undefined, Undefined))}
    ELSE {HttpResponse(404, FALSE, EmptyPayload),
          HttpResponse(200, TRUE, EmptyPayload),
          HttpResponse(200, TRUE,
                       Payload(FALSE, Some(<<>>), Undefined, Undefined, Undefined,
                               Undefined))}

\* resp is an answer of the backend to the request in flight: any response
\* if nothing is known of the backend.
BackendAnswers(resp) ==
    IsDefined(aBackend) =>
        resp \in CaseSensitiveAnswers(TheValue(aBackend), aRequests[Len(aRequests)].key)

\* RttProvider.searchStation up to the first await.
RttSearchStart ==
    /\ aPc = "call"
    /\ aProvider = RttName
    /\ aMethod = "searchStation"
    /\ LET cleaned == TrimQuery(aArgs.query)
       IN  IF cleaned.base = ""
           THEN /\ Finish(Returned(<<>>))
                /\ UNCHANGED <<aVariants, aIdx, aRequests>>
           ELSE /\ aVariants' = buildSearchVariants(cleaned)
                /\ aIdx' = 1
                /\ Issue(Request("search", buildSearchVariants(cleaned)[1]))
                /\ UNCHANGED aOutcome
    /\ UNCHANGED <<aBackend, aProvider, aMethod, aArgs, aFallbackStation, aResponses>>
    /\ UNCHANGED <<fbVars, wVars, qVars>>

\* RttProvider.searchStation from the response to a variant to the next await
\* or to its end.
RttSearchResponds(resp) ==
    /\ aProvider = RttName
    /\ aMethod = "searchStation"
    /\ Arrives(resp)
    /\ BackendAnswers(resp)
    /\ LET fetched == fetchJson(RttName, resp)
           payload == fetched.value
       IN  IF fetched.thrown
           THEN /\ Finish(Thrown(fetched.error))
                /\ UNCHANGED <<aIdx, aFallbackStation, aRequests>>
           ELSE IF payload.isNull
           THEN /\ Finish(Thrown(NullPropertyError))
                /\ UNCHANGED <<aIdx, aFallbackStation, aRequests>>
           ELSE
             LET matches == extractStations(OrEmpty(payload.locations),
                                            LimitOf(aArgs.limit))
                 fallbackStation ==
                     IF IsDefined(aFallbackStation) THEN aFallbackStation
                     ELSE extractFallbackStation(payload.location)
             IN  IF Len(matches) > 0
                 THEN /\ Finish(Returned(matches))
                      /\ UNCHANGED <<aIdx, aFallbackStation, aRequests>>
                 ELSE /\ aFallbackStation' = fallbackStation
                      /\ IF aIdx < Len(aVariants)
                         THEN /\ aIdx' = aIdx + 1
                              /\ Issue(Request("search", aVariants[aIdx + 1]))
                              /\ UNCHANGED aOutcome
                         ELSE /\ Finish(Returned(IF IsDefined(fallbackStation)
                                                 THEN <<TheValue(fallbackStation)>>
                                                 ELSE <<>>))
                              /\ UNCHANGED <<aIdx, aRequests>>
    /\ UNCHANGED <<aBackend, aProvider, aMethod, aArgs, aVariants>>
    /\ UNCHANGED <<fbVars, wVars, qVars>>

\* RttProvider.getDepartures up to the await.  The station codes of the calls
\* are in upper case, which toUpperCase leaves as they are.
RttDeparturesStart ==
    /\ aPc = "call"
    /\ aProvider = RttName
    /\ aMethod = "getDepartures"
    /\ Issue(Request(IF IsDefined(aArgs.destinationCrs)
                        /\ TheValue(aArgs.destinationCrs) # ""
                     THEN "search/to" ELSE "dep",
                     <<aArgs.originCrs, aArgs.destinationCrs>>))
    /\ UNCHANGED <<aBackend, aProvider, aMethod, aArgs, aVariants, aIdx,
                   aFallbackStation,
                   aResponses, aOutcome>>
    /\ UNCHANGED <<fbVars, wVars, qVars>>

\* RttProvider.getDepartures from the response to its end.
RttDeparturesResponds(resp) ==
    /\ aProvider = RttName
    /\ aMethod = "getDepartures"
    /\ Arrives(resp)
    /\ LET fetched == fetchJson(RttName, resp)
       IN  IF fetched.thrown
           THEN Finish(Thrown(fetched.error))
           ELSE IF fetched.value.isNull
           THEN Finish(Thrown(NullPropertyError))
           ELSE Finish(Returned(RttDepartures(fetched.value, aArgs.limit, aArgs.when)))
    /\ UNCHANGED <<aBackend, aProvider, aMethod, aArgs, aVariants, aIdx,
                   aFallbackStation,
                   aRequests>>
    /\ UNCHANGED <<fbVars, wVars, qVars>>

\* TransportApiProvider.searchStation up to the await.
TaSearchStart ==
    /\ aPc = "call"
    /\ aProvider = TransportApiName
    /\ aMethod = "searchStation"
    /\ Issue(Request("places", <<aArgs.query, LimitOf(aArgs.limit)>>))
    /\ UNCHANGED <<aBackend, aProvider, aMethod, aArgs, aVariants, aIdx,
                   aFallbackStation,
                   aResponses, aOutcome>>
    /\ UNCHANGED <<fbVars, wVars, qVars>>

\* TransportApiProvider.searchStation from the response to its end.
TaSearchResponds(resp) ==
    /\ aProvider = TransportApiName
    /\ aMethod = "searchStation"
    /\ Arrives(resp)
    /\ LET fetched == fetchJson(TransportApiName, resp)
       IN  IF fetched.thrown
           THEN Finish(Thrown(fetched.error))
           ELSE IF fetched.value.isNull
           THEN Finish(Thrown(NullPropertyError))
           ELSE Finish(Returned(TaStations(fetched.value, aArgs.limit)))
    /\ UNCHANGED <<aBackend, aProvider, aMethod, aArgs, aVariants, aIdx,
                   aFallbackStation,
                   aRequests>>
    /\ UNCHANGED <<fbVars, wVars, qVars>>

\* TransportApiProvider.getDepartures up to the await.
TaDeparturesStart ==
    /\ aPc = "call"
    /\ aProvider = TransportApiName
    /\ aMethod = "getDepartures"
    /\ Issue(Request("live",
                     <<aArgs.originCrs, aArgs.destinationCrs,
                       LimitOf(aArgs.limit), aArgs.when>>))
    /\ UNCHANGED <<aBackend, aProvider, aMethod, aArgs, aVariants, aIdx,
                   aFallbackStation,
                   aResponses, aOutcome>>
    /\ UNCHANGED <<fbVars, wVars, qVars>>

\* TransportApiProvider.getDepartures from the response to its end.
TaDeparturesResponds(resp) ==
    /\ aProvider = TransportApiName
    /\ aMethod = "getDepartures"
    /\ Arrives(resp)
    /\ LET fetched == fetchJson(TransportApiName, resp)
       IN  IF fetched.thrown
           THEN Finish(Thrown(fetched.error))
           ELSE IF fetched.value.isNull
           THEN Finish(Thrown(NullPropertyError))
           ELSE Finish(Returned(TaDepartures(fetched.value, aArgs.limit)))
    /\ UNCHANGED <<aBackend, aProvider, aMethod, aArgs, aVariants, aIdx,
                   aFallbackStation,
                   aRequests>>
    /\ UNCHANGED <<fbVars, wVars, qVars>>

--------------------------------------------------------------------------
\* Specifications

\* No callWithFallback invocation is running.
FallbackIdle ==
    /\ providers = <<>>
    /\ method = "searchStation"
    /\ retryOnEmpty = FALSE
    /\ errors = <<>>
    /\ lastResult = Undefined
    /\ lastProvider = Undefined
    /\ cur = 1
    /\ fbPc = "idle"
    /\ inflight = {}
    /\ fbReturn = Undefined
    /\ fbThrown = Undefined
    /\ started = <<>>
    /\ calls = <<>>

\* The worker's state at the first line of fetch, but for wPc.
WorkerFresh ==
    /\ settings = Undefined
    /\ ctxProviders = <<>>
    /\ sent = <<>>
    /\ jRequest = Undefined
    /\ originResult = Undefined
    /\ destinationResult = Undefined
    /\ departureResult = Undefined
    /\ escaped = Undefined
    /\ response = Undefined
    /\ fbLog = <<>>

\* parseJourneyQuery is not being applied on its own.
ParserIdle ==
    /\ qText = Trimmed(<<>>)
    /\ qNow = Clock(1, 8, 30)
    /\ qParsed = Undefined

\* No adapter is being called on its own.
AdapterIdle ==
    /\ aProvider = RttName
    /\ aMethod = "searchStation"
    /\ aArgs = SearchArgs(Query("", "none", FALSE, FALSE, FALSE), Undefined)
    /\ aPc = "none"
    /\ aVariants = <<>>
    /\ aIdx = 0
    /\ aFallbackStation = Undefined
    /\ aRequests = <<>>
    /\ aResponses = <<>>
    /\ aOutcome = Undefined
    /\ aBackend = Undefined

\* The worker: one request under one set of bindings.
Init ==
    /\ env \in Envs
    /\ httpRequest \in HttpRequests
    /\ wPc = "fetch"
    /\ WorkerFresh
    /\ FallbackIdle
    /\ ParserIdle
    /\ AdapterIdle

Next ==
    \/ Fetch
    \/ \E ok \in BOOLEAN : HandleUpdate(ok)
    \/ \E ok \in BOOLEAN : StationsStart(ok)
    \/ \E ok1, ok2 \in BOOLEAN : StationsAfterSearch(ok1, ok2)
    \/ \E ok \in BOOLEAN, now \in Clocks : JourneyStart(ok, now)
    \/ \E ok \in BOOLEAN : JourneyAfterOrigin(ok)
    \/ \E ok1, ok2 \in BOOLEAN : JourneyAfterDestination(ok1, ok2)
    \/ \E ok1, ok2 \in BOOLEAN : JourneyAfterDepartures(ok1, ok2)
    \/ Respond
    \/ FbInvoke
    \/ \E result \in ResultsOf(method) : FbAdapterReturns(result)
    \/ \E e \in Throwables : FbAdapterThrows(e)
    \/ FbExhausted

Spec == Init /\ [][Next]_vars

\* callWithFallback on its own: any adapter list, method and option, called
\* outside the worker.
InitFallback ==
    /\ env = [TELEGRAM_BOT_TOKEN |-> FALSE,
              RTT_USERNAME |-> FALSE, RTT_PASSWORD |-> FALSE,
              TRANSPORT_API_APP_ID |-> FALSE, TRANSPORT_API_APP_KEY |-> FALSE,
              DEFAULT_STATION_FILTER_LIMIT |-> Undefined]
    /\ httpRequest = [httpMethod |-> "GET", json |-> FALSE, update |-> NoUpdate]
    /\ wPc = "none"
    /\ WorkerFresh
    /\ ParserIdle
    /\ AdapterIdle
    /\ \E provs \in ProviderLists(MaxProviders), m \in MethodNames, retry \in BOOLEAN :
        /\ providers = provs
        /\ method = m
        /\ retryOnEmpty = retry
        /\ errors = <<>>
        /\ lastResult = Undefined
        /\ lastProvider = Undefined
        /\ cur = 1
        /\ fbPc = "loop"
        /\ inflight = {}
        /\ fbReturn = Undefined
        /\ fbThrown = Undefined
        /\ started = <<>>
        /\ calls = <<>>

NextFallback ==
    \/ FbInvoke
    \/ \E result \in ResultsOf(method) : FbAdapterReturns(result)
    \/ \E e \in Throwables : FbAdapterThrows(e)
    \/ FbExhausted

SpecFallback == InitFallback /\ [][NextFallback]_vars

\* The awaited adapter call settles, by resolving or by rejecting.
AdapterSettles ==
    \/ \E result \in ResultsOf(method) : FbAdapterReturns(result)
    \/ \E e \in Throwables : FbAdapterThrows(e)

\* The runtime runs the synchronous code of callWithFallback whenever it is
\* not suspended on an await.
CodeRuns == WF_vars(FbInvoke) /\ WF_vars(FbExhausted)

\* The assumption on the adapters: every call that was started settles.
EachAdapterCallCompletes == WF_vars(AdapterSettles)

\* callWithFallback on its own, with adapters whose calls all complete.
SpecFallbackLive ==
    InitFallback /\ [][NextFallback]_vars /\ CodeRuns /\ EachAdapterCallCompletes

\* The bindings and the request of a worker that is not handling a request.
NoEnv ==
    [TELEGRAM_BOT_TOKEN |-> FALSE,
     RTT_USERNAME |-> FALSE, RTT_PASSWORD |-> FALSE,
     TRANSPORT_API_APP_ID |-> FALSE, TRANSPORT_API_APP_KEY |-> FALSE,
     DEFAULT_STATION_FILTER_LIMIT |-> Undefined]
NoRequest == [httpMethod |-> "GET", json |-> FALSE, update |-> NoUpdate]

\* The words of the texts parseJourneyQuery is applied to, and the times a
\* text may end in: in range, hour or minute out of range, and glued to a word.
QueryWords == {W("Leeds"), W("York"), W("to"), W("->"), W("From")}
QueryTimes == {T("", 23, 59), T("", 24, 59), T("", 23, 60), T("York", 9, 15)}
QuerySuffixes ==
    {<<>>} \cup {<<t>> : t \in QueryTimes} \cup {<<W("AT"), t>> : t \in QueryTimes}
QueryTexts ==
    {Str(lead, ws \o suffix, trail) :
        lead \in BOOLEAN, trail \in BOOLEAN, suffix \in QuerySuffixes,
        ws \in UNION {[1..k -> QueryWords] : k \in 0..MaxWords}}

\* parseJourneyQuery on its own: any text, at any time.
InitParse ==
    /\ env = NoEnv
    /\ httpRequest = NoRequest
    /\ wPc = "none"
    /\ WorkerFresh
    /\ FallbackIdle
    /\ qText \in QueryTexts
    /\ qNow \in Clocks
    /\ qParsed = Undefined
    /\ AdapterIdle

\* request = parseJourneyQuery(query), the call ending by return or throw.
ParseJourneyQuery ==
    /\ qParsed = Undefined
    /\ qParsed' = Some(parseJourneyQuery(qText, qNow))
    /\ UNCHANGED <<qText, qNow>>
    /\ UNCHANGED <<fbVars, wVars, aVars>>

NextParse == ParseJourneyQuery

SpecParse == InitParse /\ [][NextParse]_vars

\* FallbackResult values of a search with candidates and of a departures
\* call, with and without attribution and diagnostics.
ReplyDiagnostics ==
    {<<>>,
     <<Diagnostic(RttName, ProviderErrorValue)>>,
     <<Diagnostic(RttName, NonErrorValue), Diagnostic(TransportApiName, OtherErrorValue)>>}
ReplyAttributions == {Undefined, Some(RttName), Some(TransportApiName)}
FallbackResults(results) ==
    [result : results, providerName : ReplyAttributions, errors : ReplyDiagnostics]

\* The journey of the request whose reply is composed.
ReplyText ==
    TextOf(<<W("/journey"), W("Leeds"), W("to"), W("York"), W("at"), T("", 9, 15)>>)
ReplyEnv ==
    [TELEGRAM_BOT_TOKEN |-> TRUE,
     RTT_USERNAME |-> TRUE, RTT_PASSWORD |-> TRUE,
     TRANSPORT_API_APP_ID |-> TRUE, TRANSPORT_API_APP_KEY |-> TRUE,
     DEFAULT_STATION_FILTER_LIMIT |-> Undefined]

\* handleJourney at the settled departures call, the three calls having
\* returned any FallbackResult: the composition of the reply on its own.
InitReply ==
    /\ env = ReplyEnv
    /\ httpRequest = [httpMethod |-> "POST", json |-> TRUE,
                      update |-> [message |-> TRUE, text |-> ReplyText]]
    /\ wPc = "departures"
    /\ settings = Some(loadSettings(ReplyEnv).settings)
    /\ ctxProviders = createProviders(loadSettings(ReplyEnv).settings)
    /\ sent = <<>>
    /\ jRequest = Some([originQuery |-> <<W("Leeds")>>,
                        destinationQuery |-> <<W("York")>>,
                        when |-> Some(SetHours(Clock(1, 8, 30), 9, 15))])
    /\ originResult \in {Some(r) : r \in FallbackResults(SearchResults \ {<<>>})}
    /\ destinationResult \in {Some(r) : r \in FallbackResults(SearchResults \ {<<>>})}
    /\ departureResult = Undefined
    /\ escaped = Undefined
    /\ response = Undefined
    /\ fbLog = <<>>
    /\ providers = ctxProviders
    /\ method = "getDepartures"
    /\ retryOnEmpty = TRUE
    /\ errors = <<>>
    /\ lastResult = Undefined
    /\ lastProvider = Undefined
    /\ cur = 1
    /\ fbPc = "returned"
    /\ inflight = {}
    /\ fbReturn \in {Some(r) : r \in FallbackResults(DepartureResults)}
    /\ fbThrown = Undefined
    /\ started = <<>>
    /\ calls = <<>>
    /\ ParserIdle
    /\ AdapterIdle

NextReply ==
    \/ \E ok1, ok2 \in BOOLEAN : JourneyAfterDepartures(ok1, ok2)
    \/ Respond

SpecReply == InitReply /\ [][NextReply]_vars

\* The queries searchStation is called with: one word in each casing, a text
\* without letters, one-letter words, words apart by more than one space,
\* and blank texts; with and without surrounding whitespace.
SearchQueries ==
    {Query("york", "lower", FALSE, FALSE, FALSE),
     Query("york", "upper", FALSE, FALSE, FALSE),
     Query("york", "title", FALSE, FALSE, TRUE),
     Query("york", "mixed", FALSE, FALSE, FALSE),
     Query("123", "none", FALSE, FALSE, FALSE),
     Query("a b", "lower", TRUE, FALSE, FALSE),
     Query("a b", "upper", TRUE, FALSE, TRUE),
     Query("kings cross", "title", FALSE, TRUE, FALSE),
     Query("kings cross", "lower", FALSE, TRUE, TRUE),
     Query("", "none", FALSE, FALSE, FALSE),
     Query("", "none", FALSE, FALSE, TRUE)}

\* The limit of an adapter call: absent, 0, and limits below and at the
\* length of the lists the backend answers with.
Limits == {Undefined, Some(0), Some(1), Some(2)}

\* Payloads of the backend: every property with entries, a search answer
\* with a best guess only, one with nothing usable, {} and null.
FullPayload ==
    Payload(FALSE, Some(<<LocNoCode, LocYork, LocYard>>), Some(LocYard),
            Some(<<RttService(Some("S1"), Some(1), Undefined)>>),
            Some(<<LocYork, LocNoCode, LocYard>>),
            Some(<<TaService(Some("T1"), Undefined, Undefined, Undefined, Undefined)>>))
BestGuessPayload ==
    Payload(FALSE, Some(<<LocNoCode>>), Some(LocYork), Some(<<>>), Some(<<>>),
            Some(<<>>))
NoMatchPayload ==
    Payload(FALSE, Some(<<LocNoCode>>), Some(LocNoCode), Undefined,
            Some(<<LocNoCode>>), Undefined)
\* Search answers without matches whose best guess has a description for a
\* name, an empty code, and an empty name beside a description.
DescribedGuessPayload ==
    Payload(FALSE, Undefined, Some(LocYard), Undefined, Undefined, Undefined)
EmptyCodePayload ==
    Payload(FALSE, Some(<<>>), Some(LocEmptyCode), Undefined, Undefined, Undefined)
EmptyNamePayload ==
    Payload(FALSE, Some(<<LocEmptyName>>), Some(LocEmptyName), Undefined, Undefined,
            Undefined)
Payloads ==
    {FullPayload, BestGuessPayload, NoMatchPayload, EmptyPayload, NullPayload,
     DescribedGuessPayload, EmptyCodePayload, EmptyNamePayload}

\* What the backend may answer to a request.
HttpResponses ==
    {NoResponse,
     HttpResponse(404, FALSE, EmptyPayload), HttpResponse(404, TRUE, FullPayload),
     HttpResponse(500, FALSE, EmptyPayload), HttpResponse(301, TRUE, FullPayload),
     HttpResponse(200, FALSE, EmptyPayload)}
    \cup {HttpResponse(200, TRUE, p) : p \in Payloads}

\* Stops as the backends report them: with and without a location, with a
\* booked arrival or a pass time.
RttStops ==
    <<RttStop(Some(Location(Some("SBY"), Undefined, Some("Selby"))), Some("0820"),
              Undefined),
      RttStop(Undefined, Undefined, Some("0830")),
      RttStop(Some(Location(Some("YRK"), Undefined, Some("York"))), Some("0845"),
              Some("0844")),
      RttStop(Some(Location(Some("SBY"), Undefined, Some("Selby"))), Some("0820"),
              Undefined)>>
TaStops ==
    <<TaStop(Some("Selby"), Some("SBY"), Some("08:20"), Undefined),
      TaStop(Undefined, Undefined, Undefined, Some("08:30")),
      TaStop(Some("York"), Some("YRK"), Some("08:45"), Some("08:44")),
      TaStop(Some("Selby"), Some("SBY"), Some("08:20"), Undefined)>>

\* The time getDepartures is asked for.
RequestedTime == Clock(1, 8, 0)

\* Services of the RTT backend: booked at, before and after the requested
\* time, on the day before and the day after, without a run date, without a
\* booked time, with a booked time without a colon, without locationDetail;
\* cancelled, with a display text, departed, expected, and with no status
\* information; with call points, with none, and with call points that are
\* no array.
RttServiceSamples ==
    {RttService(Some("S1"), Some(1),
                Some(Detail(Some(TimeText(TRUE, 8, 0)), FALSE, Undefined, Undefined,
                            Undefined, Some(StopArray(RttStops))))),
     RttService(Some("S2"), Some(1),
                Some(Detail(Some(TimeText(TRUE, 7, 59)), TRUE, Some("call"), Undefined,
                            Undefined, Undefined))),
     RttService(Undefined, Undefined,
                Some(Detail(Some(TimeText(TRUE, 7, 0)), FALSE, Some("call"),
                            Some("0701"), Undefined, Some(StopArray(<<>>))))),
     RttService(Some("S4"), Some(1),
                Some(Detail(Undefined, FALSE, Some(""), Some("0801"), Some("0802"),
                            Some(NotAnArray)))),
     RttService(Some("S5"), Some(1),
                Some(Detail(Some(TimeText(FALSE, 7, 0)), FALSE, Undefined, Some(""),
                            Some("0702"), Some(StopArray(SubSeq(RttStops, 2, 3)))))),
     RttService(Some("S6"), Some(0),
                Some(Detail(Some(TimeText(TRUE, 23, 0)), FALSE, Some("Starts"),
                            Undefined, Undefined, Undefined))),
     RttService(Some("S7"), Some(2),
                Some(Detail(Some(TimeText(TRUE, 0, 0)), FALSE, Some(""), Some(""),
                            Some(""), Undefined))),
     RttService(Some("S8"), Some(1), Undefined)}

\* Services of the TransportAPI backend: with a status, with an empty one
\* and with none; with calling points under station_detail, at the top level,
\* under both, under neither, and with calling points that are no array.
TaServiceSamples ==
    {TaService(Some("T1"), Some(TimeText(TRUE, 8, 0)), Some("ON TIME"),
               Some(StopArray(TaStops)), Undefined),
     TaService(Some("T2"), Some(TimeText(TRUE, 7, 0)), Undefined,
               Undefined, Some(StopArray(SubSeq(TaStops, 2, 3)))),
     TaService(Undefined, Undefined, Some(""),
               Some(StopArray(<<>>)), Some(StopArray(TaStops))),
     TaService(Some("T4"), Some(TimeText(TRUE, 9, 0)), Some("LATE"),
               Undefined, Undefined),
     TaService(Some("T5"), Some(TimeText(TRUE, 9, 5)), Some("CANCELLED"),
               Some(NotAnArray), Some(StopArray(TaStops)))}

\* The sequences of up to MaxServices services.
ListsOf(samples) == UNION {[1..k -> samples] : k \in 0..MaxServices}

\* What the backends may answer to a departures request.
RttDepartureResponses ==
    HttpResponses
    \cup {HttpResponse(200, TRUE,
                       Payload(FALSE, Undefined, Undefined, Some(services), Undefined,
                               Undefined)) : services \in ListsOf(RttServiceSamples)}
TaDepartureResponses ==
    HttpResponses
    \cup {HttpResponse(200, TRUE,
                       Payload(FALSE, Undefined, Undefined, Undefined, Undefined,
                               Some(all))) : all \in ListsOf(TaServiceSamples)}

AdapterCalls ==
    {SearchArgs(q, l) : q \in SearchQueries, l \in Limits}
    \cup {DepartureArgs("LDS", d, l, w) :
             d \in {Undefined, Some(""), Some("YRK")}, l \in Limits,
             w \in {Undefined, Some(RequestedTime)}}

\* An adapter on its own: either adapter, either operation, any arguments,
\* against a backend that answers anything.
InitAdapter ==
    /\ env = NoEnv
    /\ httpRequest = NoRequest
    /\ wPc = "none"
    /\ WorkerFresh
    /\ FallbackIdle
    /\ ParserIdle
    /\ aProvider \in {RttName, TransportApiName}
    /\ aMethod \in MethodNames
    /\ aArgs \in {a \in AdapterCalls :
                     (aMethod = "searchStation") = (a.originCrs = "")}
    /\ aPc = "call"
    /\ aVariants = <<>>
    /\ aIdx = 0
    /\ aFallbackStation = Undefined
    /\ aRequests = <<>>
    /\ aResponses = <<>>
    /\ aOutcome = Undefined
    /\ aBackend = Undefined

\* What the backend may answer to the request in flight, if there is one.
Answers ==
    IF aPc # "fetch" THEN {}
    ELSE IF aMethod = "searchStation" THEN HttpResponses
    ELSE IF aProvider = RttName THEN RttDepartureResponses
    ELSE TaDepartureResponses

NextAdapter ==
    \/ RttSearchStart
    \/ \E resp \in Answers : RttSearchResponds(resp)
    \/ RttDeparturesStart
    \/ \E resp \in Answers : RttDeparturesResponds(resp)
    \/ TaSearchStart
    \/ \E resp \in Answers : TaSearchResponds(resp)
    \/ TaDeparturesStart
    \/ \E resp \in Answers : TaDeparturesResponds(resp)

SpecAdapter == InitAdapter /\ [][NextAdapter]_vars

\* The casings of a name and the queries for it: "york", one-letter words,
\* and two words, one or more spaces apart, in every casing.
BackendCasings == {"lower", "upper", "title"}
CaseQueries ==
    {Query("york", c, FALSE, FALSE, p) :
        c \in {"lower", "upper", "title", "mixed"}, p \in BOOLEAN}
    \cup {Query("a b", c, TRUE, FALSE, p) : c \in {"lower", "upper", "mixed"}, p \in BOOLEAN}
    \cup {Query("kings cross", c, FALSE, w, FALSE) :
              c \in {"lower", "upper", "title", "mixed"}, w \in BOOLEAN}
CaseResponses ==
    UNION {CaseSensitiveAnswers(c, q) : c \in BackendCasings, q \in CaseQueries}

\* RttProvider.searchStation against a case-sensitive backend that matches
\* the station name in exactly one casing.
InitCase ==
    /\ env = NoEnv
    /\ httpRequest = NoRequest
    /\ wPc = "none"
    /\ WorkerFresh
    /\ FallbackIdle
    /\ ParserIdle
    /\ aProvider = RttName
    /\ aMethod = "searchStation"
    /\ aArgs \in {SearchArgs(q, l) : q \in CaseQueries, l \in Limits}
    /\ aPc = "call"
    /\ aVariants = <<>>
    /\ aIdx = 0
    /\ aFallbackStation = Undefined
    /\ aRequests = <<>>
    /\ aResponses = <<>>
    /\ aOutcome = Undefined
    /\ aBackend \in {Some(c) : c \in BackendCasings}

NextCase ==
    \/ RttSearchStart
    \/ \E resp \in CaseResponses : RttSearchResponds(resp)

SpecCase == InitCase /\ [][NextCase]_vars

--------------------------------------------------------------------------
\* Properties of callWithFallback (checked under SpecFallback)

\* The diagnostics the adapter calls settled among the first n should have left.
ExpectedDiagnostics(n) ==
    LET t == SelectSeq(SubSeq(calls, 1, n), LAMBDA c : c.threw)
    IN  [i \in 1..Len(t) |-> <<t[i].name, t[i].error.message>>]

NumberThrown == Len(SelectSeq(calls, LAMBDA c : c.threw))

\* The first k adapters of the list threw and adapter k+1 answered non-empty.
C1_Case(k) ==
    /\ k >= 1
    /\ Len(calls) >= k + 1
    /\ \A i \in 1..k : calls[i].pos = i /\ calls[i].threw
    /\ calls[k + 1].pos = k + 1
    /\ ~calls[k + 1].threw
    /\ Len(calls[k + 1].result) > 0

\* C1: if the first k >= 1 adapters all throw and the next one succeeds with a
\* non-empty result, the call returns that result, attributed to that adapter,
\* with exactly k diagnostics, one per failed adapter, in adapter order.
C1_FallbackAfterFailures ==
    \A k \in 1..Len(providers) :
        C1_Case(k) =>
            /\ fbPc = "returned"
            /\ FbResult.result = calls[k + 1].result
            /\ FbResult.providerName = Some(providers[k + 1])
            /\ Len(FbResult.errors) = k
            /\ \A i \in 1..k :
                   FbResult.errors[i] = <<providers[i], calls[i].error.message>>

C1_Witness == C1_Case(2) /\ fbPc = "returned" /\ Len(FbResult.errors) = 2

\* Every adapter of a non-empty list threw.
C2_Case ==
    /\ Len(providers) >= 1
    /\ Len(calls) = Len(providers)
    /\ \A i \in 1..Len(calls) : calls[i].threw

\* C2: with a non-empty adapter list, if every adapter throws, the call raises
\* AllProvidersFailed whose errors list has one entry per adapter, in adapter
\* order, and no result is returned.
C2_AllFailedRaises ==
    (FbDone /\ C2_Case) =>
        /\ fbPc = "raised"
        /\ fbReturn = Undefined
        /\ FbException.name = "AllProvidersFailed"
        /\ Len(FbException.errors) = Len(providers)
        /\ \A i \in 1..Len(providers) :
               FbException.errors[i] = <<providers[i], calls[i].error.message>>

C2_Witness == FbDone /\ C2_Case /\ Len(providers) = 3 /\ fbPc = "raised"

\* Every adapter call of the invocation answered an empty sequence, none threw.
C3_Case ==
    /\ Len(providers) >= 1
    /\ Len(calls) >= 1
    /\ \A i \in 1..Len(calls) : ~calls[i].threw /\ calls[i].result = <<>>

\* C3: if every adapter returns an empty sequence and none throws, the call
\* returns an empty sequence with no attributed provider name and no
\* diagnostics, with retry-on-empty enabled as well as disabled.
C3_AllEmptyNoAttribution ==
    (FbDone /\ C3_Case) =>
        /\ fbPc = "returned"
        /\ FbResult.result = <<>>
        /\ FbResult.providerName = Undefined
        /\ FbResult.errors = <<>>

\* Positions in calls of the adapter calls that succeeded.
Succeeded == {i \in 1..Len(calls) : ~calls[i].threw}
LastSucceeded == CHOOSE i \in Succeeded : \A j \in Succeeded : j <= i

\* The loop ran out of adapters: no return statement inside it was taken.
C4_Exhausted == FbDone /\ cur > Len(providers)

\* C4: after every adapter was tried without an early return the outcome is,
\* in this priority: the remembered result with its attribution and all
\* diagnostics of the call; else AllProvidersFailed with all diagnostics if
\* any was recorded; else an empty result without attribution or diagnostics.
\* AllProvidersFailed is raised exactly when at least one adapter was invoked
\* and every invoked adapter threw.
C4_OutcomeAfterExhaustion ==
    /\ C4_Exhausted =>
          IF Succeeded # {}
          THEN /\ fbPc = "returned"
               /\ FbResult.result = calls[LastSucceeded].result
               /\ FbResult.providerName = Some(calls[LastSucceeded].name)
               /\ FbResult.errors = ExpectedDiagnostics(Len(calls))
          ELSE IF NumberThrown > 0
          THEN /\ fbPc = "raised"
               /\ FbException = AllProvidersFailed(ExpectedDiagnostics(Len(calls)))
          ELSE /\ fbPc = "returned"
               /\ FbResult = [result |-> <<>>, providerName |-> Undefined, errors |-> <<>>]
    /\ FbDone =>
          ((fbPc = "raised" /\ FbException.name = "AllProvidersFailed")
             <=> (Len(started) >= 1 /\ \A i \in 1..Len(calls) : calls[i].threw))

\* A remembered empty result is returned although a later adapter threw.
C4_Witness ==
    /\ C4_Exhausted
    /\ fbPc = "returned"
    /\ Succeeded # {}
    /\ \E i \in 1..Len(calls) : i > LastSucceeded /\ calls[i].threw
    /\ Len(FbResult.errors) = 2

\* The settled call at position i of calls ends the invocation at once.
C5_Decisive(i) ==
    /\ ~calls[i].threw
    /\ (Len(calls[i].result) > 0 \/ ~retryOnEmpty)

\* C5: as soon as an adapter succeeds with a non-empty result, or with any
\* result while retry-on-empty is disabled, the call returns that result
\* attributed to that adapter with the diagnostics of the adapters that failed
\* before it, and no later adapter is ever invoked.
C5_ImmediateReturn ==
    \A i \in 1..Len(calls) :
        C5_Decisive(i) =>
            /\ fbPc = "returned"
            /\ FbResult.result = calls[i].result
            /\ FbResult.providerName = Some(calls[i].name)
            /\ FbResult.errors = ExpectedDiagnostics(i - 1)
            /\ Len(calls) = i
            /\ \A j \in 1..Len(started) : started[j] <= calls[i].pos
            /\ inflight = {}

\* An empty result with retry-on-empty disabled ends the call before the
\* adapters after it are invoked.
C5_Witness ==
    /\ Len(calls) = 2
    /\ C5_Decisive(2)
    /\ calls[2].result = <<>>
    /\ Len(providers) = 3
    /\ fbPc = "returned"

\* C6: an error thrown by one adapter never propagates out of callWithFallback
\* and never stops the iteration: it is recorded and the loop goes on with the
\* next adapter; the only exception callWithFallback raises is AllProvidersFailed.
C6_AdapterErrorsContained ==
    /\ fbPc = "raised" => FbException.name = "AllProvidersFailed"
    /\ \A i \in 1..Len(calls) :
          calls[i].threw =>
              /\ cur > calls[i].pos
              /\ \E j \in 1..Len(errors) :
                     errors[j] = <<calls[i].name, calls[i].error.message>>
              /\ (fbPc = "loop" /\ cur <= Len(providers)) => ENABLED FbInvoke

\* An adapter threw something that is no ProviderError and a later adapter was
\* still invoked.
C6_Witness ==
    \E i \in 1..Len(calls) :
        /\ calls[i].threw
        /\ calls[i].error.name # "ProviderError"
        /\ \E j \in 1..Len(started) : started[j] > calls[i].pos

\* The diagnostics the finished invocation carries.
CarriedErrors == IF fbPc = "returned" THEN FbResult.errors ELSE FbException.errors

\* C7: whether the call returns or raises, the diagnostics it carries are as
\* many as the adapters that threw: each invoked adapter succeeded and added
\* none, or threw and added exactly one; adapters not invoked add none.
C7_DiagnosticsCountThrows ==
    /\ Len(errors) = NumberThrown
    /\ FbDone =>
          /\ Len(CarriedErrors) = NumberThrown
          /\ CarriedErrors = ExpectedDiagnostics(Len(calls))
          /\ Len(calls) = Len(started)
          /\ Len(calls) = Cardinality(Succeeded) + NumberThrown

\* A returned result that carries the diagnostic of a thrown value that is no
\* Error, with an adapter left uninvoked.
C7_Witness ==
    /\ fbPc = "returned"
    /\ Len(FbResult.errors) = 1
    /\ Len(started) < Len(providers)
    /\ \E i \in 1..Len(calls) : calls[i].threw /\ ~calls[i].error.isError

\* C8: a provider name carried by a returned FallbackResult is the name of the
\* adapter whose call in this invocation produced exactly the returned result;
\* the name of an adapter that threw, or was not invoked, is never attributed.
C8_AttributionIsProducer ==
    (fbPc = "returned" /\ IsDefined(FbResult.providerName)) =>
        /\ \E i \in 1..Len(calls) :
               /\ ~calls[i].threw
               /\ calls[i].name = TheValue(FbResult.providerName)
               /\ calls[i].result = FbResult.result
        /\ \A i \in 1..Len(calls) :
               calls[i].threw => calls[i].name # TheValue(FbResult.providerName)
        /\ \E j \in 1..Len(started) :
               providers[started[j]] = TheValue(FbResult.providerName)

\* The attributed adapter is neither the first nor the last one invoked.
C8_Witness ==
    /\ fbPc = "returned"
    /\ Len(calls) = 3
    /\ FbResult.providerName = Some(calls[2].name)
    /\ calls[1].threw
    /\ calls[3].threw

\* C9: at most one adapter call is in flight at any time: the call of the
\* adapter at position i+1 starts only after the call at position i settled.
C9_Sequential ==
    /\ Cardinality(inflight) <= 1
    /\ \A j \in 1..Len(started) :
          \A i \in 1..(started[j] - 1) :
              \E c \in 1..Len(calls) : calls[c].pos = i
    /\ \A j \in 1..Len(started) : started[j] = j

\* The third adapter's call is in flight after the first two settled.
C9_Witness == inflight = {3} /\ Len(calls) = 2

--------------------------------------------------------------------------
\* Properties of the journey handler (checked under Spec)

\* handleUpdate has ended, by returning or by an exception leaving it.
HandlerEnded == wPc \in {"finished", "done"}

\* Some sendMessage of the command delivered the text.
Received(text) ==
    \E i \in 1..Len(sent) : sent[i].ok /\ sent[i].message.text = text

NoDeparturesCall ==
    \A i \in 1..Len(fbLog) : fbLog[i].method # "getDepartures"

AllSendsOk == \A i \in 1..Len(sent) : sent[i].ok

\* The origin search returned no candidate.
C10_OriginEmpty ==
    IsDefined(originResult) /\ Len(TheValue(originResult).result) = 0

\* The origin search returned candidates and the destination search none.
C10_DestinationEmpty ==
    /\ IsDefined(originResult)
    /\ Len(TheValue(originResult).result) > 0
    /\ IsDefined(destinationResult)
    /\ Len(TheValue(destinationResult).result) = 0

\* C10 as stated: if the origin search yields no candidates the user receives
\* the origin-specific message, whatever the destination search does; if the
\* origin has candidates and the destination search yields none the user
\* receives the destination-specific message; in both cases no getDepartures
\* call is made and no exception escapes the handler.
C10_AsStated ==
    /\ (HandlerEnded /\ C10_OriginEmpty) =>
          /\ Received(OriginNotFoundText)
          /\ NoDeparturesCall
          /\ escaped = Undefined
    /\ (HandlerEnded /\ C10_DestinationEmpty) =>
          /\ Received(DestinationNotFoundText)
          /\ NoDeparturesCall
          /\ escaped = Undefined

\* The reply of the handler to a side without candidates: the first
\* sendMessage carries text, it is the only one unless it failed, no
\* getDepartures call is made, and no exception leaves the handler unless
\* a sendMessage failed.
C10_SideReply(text) ==
    /\ Len(sent) >= 1
    /\ sent[1].message.text = text
    /\ sent[1].ok => Len(sent) = 1
    /\ NoDeparturesCall
    /\ AllSendsOk => escaped = Undefined
    /\ IsDefined(escaped) => ~sent[Len(sent)].ok

\* C10 (amended): if the origin search returns no candidates and the
\* destination search returns (with any result), the handler replies with the
\* origin-specific message; if the origin has candidates and the destination
\* search returns none, with the destination-specific message; in both cases
\* no getDepartures call is made and no exception escapes the handler unless
\* sendMessage itself fails.  When the destination search raises
\* AllProvidersFailed after an origin search without candidates, the reply is
\* the aggregate-failure message instead.
C10_ResolutionFailureReply ==
    /\ (HandlerEnded /\ C10_OriginEmpty /\ IsDefined(destinationResult)) =>
          C10_SideReply(OriginNotFoundText)
    /\ (HandlerEnded /\ C10_DestinationEmpty) =>
          C10_SideReply(DestinationNotFoundText)
    /\ (HandlerEnded /\ C10_OriginEmpty /\ ~IsDefined(destinationResult)) =>
          /\ fbPc = "raised"
          /\ Len(sent) = 1
          /\ sent[1].message = Message(JourneyAllFailedText, FbException.errors)
          /\ NoDeparturesCall

\* Both searches returned no candidate and the origin message was delivered.
C10_Witness ==
    /\ HandlerEnded
    /\ C10_OriginEmpty
    /\ IsDefined(destinationResult)
    /\ Len(TheValue(destinationResult).result) = 0
    /\ Received(OriginNotFoundText)
    /\ Len(fbLog) = 2

--------------------------------------------------------------------------
\* Properties of the command handlers (checked under Spec)

\* The command handleUpdate extracted from the text of the update.
Command == extractCommand(httpRequest.update.text).command

\* handleUpdate was called and went past the first statements of the handler
\* of command c.
PastStart(c) ==
    /\ IsDefined(settings)
    /\ Command = c
    /\ wPc \notin {"fetch", "handleUpdate", "handleStations", "handleJourney"}

\* Journey texts that parseJourneyQuery rejects, with the message of each.
C11_Rejected ==
    {[args |-> <<W("Leeds"), W("York")>>, message |-> JourneyPartsError],
     [args |-> <<W("Leeds"), W("to"), W("York"), W("at"), T("", 25, 61)>>,
      message |-> JourneyTimeError]}

\* What the handler did when it ended on the parse failure message msg.
C11_EndedOn(msg) ==
    /\ HandlerEnded
    /\ Len(sent) = 1
    /\ sent[1].message = Message(msg, <<>>)
    /\ jRequest = Undefined
    /\ fbLog = <<>>
    /\ fbPc = "idle"
    /\ started = <<>>

\* C11: when parseJourneyQuery fails on the journey text, the handler sends
\* the message of the parse failure as it is and ends; no station search and
\* no departure retrieval is invoked for that command.
C11_ParseFailureShortCircuits ==
    /\ \A c \in C11_Rejected :
          (PastStart("/journey") /\ ArgsText = c.args) => C11_EndedOn(c.message)
    /\ (PastStart("/journey") /\ ArgsText # <<>>) =>
          \A now \in Clocks :
              LET parsed == parseJourneyQuery(Trimmed(ArgsText), now)
              IN  ~parsed.ok => C11_EndedOn(parsed.message)

\* The time message was delivered for the text ending in 25:61.
C11_Witness ==
    /\ wPc = "done"
    /\ PastStart("/journey")
    /\ ArgsText = <<W("Leeds"), W("to"), W("York"), W("at"), T("", 25, 61)>>
    /\ sent = <<[message |-> Message(JourneyTimeError, <<>>), ok |-> TRUE]>>

--------------------------------------------------------------------------
\* Properties of the journey reply (checked under SpecReply and Spec)

\* The handler composed a journey reply: the first sendMessage call carries it.
JourneyReplied ==
    /\ HandlerEnded
    /\ IsDefined(departureResult)
    /\ Len(sent) >= 1
    /\ sent[1].message.text = JourneyReplyText

\* The parts of the composed reply.
ReplyProviderNote == sent[1].message.detail[3]
ReplyDiagnosticLines == sent[1].message.detail[4]

\* The attributions of the three calls.
OriginAttribution == TheValue(originResult).providerName
DestinationAttribution == TheValue(destinationResult).providerName
DeparturesAttribution == TheValue(departureResult).providerName

\* C12: in a journey reply the provider shown as data source is the
\* attribution of the departures call if it has one, else that of the origin
\* search if it has one, else that of the destination search; no data source
\* is shown only when all three are absent.
C12_DataSourcePreference ==
    JourneyReplied =>
        /\ IsDefined(DeparturesAttribution) =>
              ReplyProviderNote = DeparturesAttribution
        /\ (~IsDefined(DeparturesAttribution) /\ IsDefined(OriginAttribution)) =>
              ReplyProviderNote = OriginAttribution
        /\ (~IsDefined(DeparturesAttribution) /\ ~IsDefined(OriginAttribution)) =>
              ReplyProviderNote = DestinationAttribution
        /\ ReplyProviderNote = Undefined <=>
              /\ DeparturesAttribution = Undefined
              /\ OriginAttribution = Undefined
              /\ DestinationAttribution = Undefined

\* Only the destination search is attributed, and its provider is shown.
C12_Witness ==
    /\ JourneyReplied
    /\ DeparturesAttribution = Undefined
    /\ OriginAttribution = Undefined
    /\ DestinationAttribution = Some(TransportApiName)
    /\ ReplyProviderNote = Some(TransportApiName)
    /\ sent[1].ok

\* The diagnostics of the three calls.
OriginErrors == TheValue(originResult).errors
DestinationErrors == TheValue(destinationResult).errors
DeparturesErrors == TheValue(departureResult).errors

\* The diagnostic presented at position i of the reply.
Presented(i) == ReplyDiagnosticLines[i][2]

\* C13: in a successful journey reply the presented diagnostics are those of
\* the origin search, then those of the destination search, then those of the
\* departures call, each list in its own order, none dropped or duplicated.
C13_DiagnosticsInCallOrder ==
    JourneyReplied =>
        LET no == Len(OriginErrors)
            nd == Len(DestinationErrors)
            np == Len(DeparturesErrors)
        IN  /\ Len(ReplyDiagnosticLines) = no + nd + np
            /\ \A i \in 1..no : Presented(i) = OriginErrors[i]
            /\ \A i \in 1..nd : Presented(no + i) = DestinationErrors[i]
            /\ \A i \in 1..np : Presented(no + nd + i) = DeparturesErrors[i]

\* Three calls with one, two and one diagnostics give four lines.
C13_Witness ==
    /\ JourneyReplied
    /\ Len(OriginErrors) = 1
    /\ Len(DestinationErrors) = 2
    /\ Len(DeparturesErrors) = 1
    /\ Len(ReplyDiagnosticLines) = 4
    /\ Presented(2) = Diagnostic(RttName, NonErrorValue)
    /\ sent[1].ok

--------------------------------------------------------------------------
\* Properties of the handlers' error paths and replies (checked under Spec)

\* The callWithFallback invocations the handler had made when the one that
\* raised was awaited: the stored results tell which one it was.
C14_CallsUntilRaise ==
    IF Command = "/stations" THEN 1
    ELSE IF ~IsDefined(originResult) THEN 1
    ELSE IF ~IsDefined(destinationResult) THEN 2
    ELSE 3

\* C14: if a callWithFallback invocation of the stations or journey handler
\* raises AllProvidersFailed, the handler makes no further invocation for that
\* command and its reply lists every diagnostic of the failed invocation, one
\* per adapter, in adapter order.
C14_AggregateFailureReply ==
    (HandlerEnded /\ fbPc = "raised") =>
        /\ FbException.name = "AllProvidersFailed"
        /\ Len(fbLog) = C14_CallsUntilRaise
        /\ fbLog[Len(fbLog)].method = method
        /\ Len(sent) = 1
        /\ sent[1].message.text =
              (IF Command = "/stations" THEN StationsAllFailedText
               ELSE JourneyAllFailedText)
        /\ Len(sent[1].message.detail) = Len(providers)
        /\ Len(calls) = Len(providers)
        /\ \A i \in 1..Len(providers) :
              /\ calls[i].threw
              /\ sent[1].message.detail[i] = <<providers[i], calls[i].error.message>>

\* The departures call of a journey raised after both searches succeeded, and
\* the two diagnostics were delivered.
C14_Witness ==
    /\ HandlerEnded
    /\ fbPc = "raised"
    /\ Command = "/journey"
    /\ Len(fbLog) = 3
    /\ Len(sent) = 1
    /\ sent[1].ok
    /\ sent[1].message.text = JourneyAllFailedText
    /\ Len(sent[1].message.detail) = 2

\* handleUpdate was called and has ended.
HandleUpdateEnded == HandlerEnded /\ IsDefined(settings)

\* if (!message || !message.text) is false: the update carries message text.
CarriesText ==
    /\ httpRequest.update.message
    /\ httpRequest.update.text.present
    /\ ~httpRequest.update.text.empty

Delivered == {i \in 1..Len(sent) : sent[i].ok}

\* C15: for an update that carries message text handleUpdate sends exactly
\* one reply on every path, provided no sendMessage call fails; an update
\* without message text gets no reply.  A reply is the last thing a handler
\* does; a second sendMessage call is made only after the first one failed
\* inside a try block, and it carries the unexpected-error message.
C15_OneReplyPerUpdate ==
    /\ (HandleUpdateEnded /\ CarriesText /\ AllSendsOk) => Len(sent) = 1
    /\ (HandleUpdateEnded /\ ~CarriesText) => sent = <<>>
    /\ ~HandlerEnded => sent = <<>>
    /\ Cardinality(Delivered) <= 1
    /\ Len(sent) <= 2
    /\ Len(sent) = 2 =>
          /\ ~sent[1].ok
          /\ sent[2].message.text \in {StationsUnexpectedText, JourneyUnexpectedText}

\* A journey reply was delivered as the only message of the update.
C15_Witness ==
    /\ HandleUpdateEnded
    /\ CarriesText
    /\ Command = "/journey"
    /\ IsDefined(departureResult)
    /\ sent[1].message.text = JourneyReplyText
    /\ Len(sent) = 1
    /\ sent[1].ok

--------------------------------------------------------------------------
\* Properties of parseJourneyQuery (checked under SpecParse)

ParseDone == IsDefined(qParsed)
Parsed == TheValue(qParsed)

IsSeparator(tok) == IsWord(tok, {"to", "->"})

\* The text ends in "at HH:MM" with the hour and the minute in range.
C16_Timed ==
    LET n == Len(qText.tokens)
    IN  /\ n >= 2
        /\ qText.tokens[n].kind = "time"
        /\ qText.tokens[n].text = ""
        /\ qText.tokens[n].hours \in 0..23
        /\ qText.tokens[n].minutes \in 0..59
        /\ IsWord(qText.tokens[n - 1], {"at"})

\* The text has no time token at its end.
C16_Untimed ==
    Len(qText.tokens) = 0 \/ qText.tokens[Len(qText.tokens)].kind # "time"

\* The tokens of "O to D" in the text.
C16_Words ==
    IF C16_Timed
    THEN SubSeq(qText.tokens, 1, Len(qText.tokens) - 2)
    ELSE qText.tokens

C16_Separators == {i \in 1..Len(C16_Words) : IsSeparator(C16_Words[i])}
C16_At == CHOOSE i \in C16_Separators : TRUE
C16_O == SubSeq(C16_Words, 1, C16_At - 1)
C16_D == SubSeq(C16_Words, C16_At + 1, Len(C16_Words))

\* The text is "O to D at HH:MM" or "O to D" with O and D non-empty and free
\* of separator tokens, and the time in range.
C16_Form ==
    /\ ~qText.lead
    /\ ~qText.trail
    /\ C16_Timed \/ C16_Untimed
    /\ Cardinality(C16_Separators) = 1
    /\ C16_Words[C16_At] = W("to")
    /\ C16_O # <<>>
    /\ C16_D # <<>>

\* The requested time the form asks for.
C16_When ==
    IF C16_Timed
    THEN Some([day |-> qNow.day,
               hours |-> qText.tokens[Len(qText.tokens)].hours,
               minutes |-> qText.tokens[Len(qText.tokens)].minutes])
    ELSE Undefined

\* C16 as stated: on "O to D at HH:MM" parseJourneyQuery returns originQuery =
\* O, destinationQuery = D and the requested time HH:MM on the current date,
\* and on "O to D" the same origin and destination with no requested time.
C16_AsStated ==
    (ParseDone /\ C16_Form) =>
        /\ Parsed.ok
        /\ Parsed.originQuery = C16_O
        /\ Parsed.destinationQuery = C16_D
        /\ Parsed.when = C16_When

\* A side as returned: without its leading "from" word when more text follows.
C16_Side(side) ==
    IF Len(side) >= 2 /\ IsWord(side[1], {"from"}) THEN Tail(side) ELSE side

\* C16 (amended): on "O to D at HH:MM" with O and D non-empty and free of
\* separator tokens, H in 0..23 and M in 0..59, parseJourneyQuery returns the
\* requested time H:M on the current date, and on "O to D" no requested time;
\* originQuery is O and destinationQuery is D unless the side starts with the
\* word "from" followed by more text, in which case that word is left out.
C16_WellFormedParses ==
    (ParseDone /\ C16_Form) =>
        /\ Parsed.ok
        /\ Parsed.originQuery = C16_Side(C16_O)
        /\ Parsed.destinationQuery = C16_Side(C16_D)
        /\ Parsed.when = C16_When
        /\ ~IsWord(C16_O[1], {"from"}) => Parsed.originQuery = C16_O
        /\ ~IsWord(C16_D[1], {"from"}) => Parsed.destinationQuery = C16_D

\* "From Leeds to York AT 23:59" on day 2: the time is 23:59 on day 2 and the
\* origin is returned without its first word.
C16_Witness ==
    /\ ParseDone
    /\ C16_Form
    /\ qText.tokens = <<W("From"), W("Leeds"), W("to"), W("York"), W("AT"), T("", 23, 59)>>
    /\ qNow = Clock(2, 23, 59)
    /\ Parsed.originQuery = <<W("Leeds")>>
    /\ Parsed.destinationQuery = <<W("York")>>
    /\ Parsed.when = Some([day |-> 2, hours |-> 23, minutes |-> 59])

\* The text ends in a time token: digits:digits with nothing after them.
EndsInTime ==
    /\ ~qText.trail
    /\ Len(qText.tokens) >= 1
    /\ qText.tokens[Len(qText.tokens)].kind = "time"

LastToken == qText.tokens[Len(qText.tokens)]

\* C17: on a text ending in a time token whose hour is above 23 or whose
\* minute is above 59 parseJourneyQuery fails with the time message and
\* returns no request, whatever the rest of the text is; a returned requested
\* time never has an hour outside 0..23 or a minute outside 0..59.
C17_TimeOutOfRangeFails ==
    ParseDone =>
        /\ (EndsInTime /\ (LastToken.hours > 23 \/ LastToken.minutes > 59)) =>
              /\ ~Parsed.ok
              /\ Parsed.message = JourneyTimeError
              /\ Parsed.when = Undefined
              /\ Parsed.originQuery = <<>>
              /\ Parsed.destinationQuery = <<>>
        /\ (Parsed.ok /\ IsDefined(Parsed.when)) =>
              /\ TheValue(Parsed.when).hours \in 0..23
              /\ TheValue(Parsed.when).minutes \in 0..59

\* "Leeds to York at 23:60" is rejected with the time message.
C17_Witness ==
    /\ ParseDone
    /\ qText = Trimmed(<<W("Leeds"), W("to"), W("York"), W("AT"), T("", 23, 60)>>)
    /\ ~Parsed.ok
    /\ Parsed.message = JourneyTimeError

\* The text before the time token: all of it when it ends in no time.
C18_Before ==
    IF EndsInTime
    THEN LET n == Len(qText.tokens)
         IN  IF LastToken.text # ""
             THEN Trimmed(Append(SubSeq(qText.tokens, 1, n - 1), W(LastToken.text)))
             ELSE IF n >= 2 /\ IsWord(qText.tokens[n - 1], {"at"})
             THEN Trimmed(SubSeq(qText.tokens, 1, n - 2))
             ELSE Trimmed(SubSeq(qText.tokens, 1, n - 1))
    ELSE qText

\* The separator tokens of the string b.
C18_SeparatorTokensOf(b) == {i \in 1..Len(b.tokens) : IsSeparator(b.tokens[i])}

\* The separator tokens of the text before the time token.
C18_SeparatorTokens == C18_SeparatorTokensOf(C18_Before)

\* C18 as stated: parseJourneyQuery fails whenever the text before the time
\* token holds no separator, or two or more separators; and a returned
\* request never has an empty originQuery or destinationQuery.
C18_AsStated ==
    ParseDone =>
        /\ Cardinality(C18_SeparatorTokens) # 1 => ~Parsed.ok
        /\ Parsed.ok => (Parsed.originQuery # <<>> /\ Parsed.destinationQuery # <<>>)

\* The separator tokens of b with whitespace on both sides.
C18_SpacedOf(b) ==
    {i \in C18_SeparatorTokensOf(b) :
        (i > 1 \/ b.lead) /\ (i < Len(b.tokens) \/ b.trail)}

\* The separator tokens of b that separate: spaced, and at an odd place in
\* their run of adjacent spaced separator tokens (the space before a token at
\* an even place belongs to the separator before it).
C18_SeparatingOf(b) ==
    LET spaced == C18_SpacedOf(b)
    IN  {i \in spaced :
            LET first == CHOOSE j \in 1..i :
                             /\ \A k \in j..i : k \in spaced
                             /\ (j - 1) \notin spaced
            IN  (i - first) % 2 = 0}

C18_Separating == C18_SeparatingOf(C18_Before)

\* C18 (amended): parseJourneyQuery fails whenever the text before the time
\* token does not hold exactly one separating occurrence of 'to' or '->': a
\* separator word with whitespace on both sides, counted left to right, a
\* separator word that directly follows a separating one not counting.  On a
\* text without surrounding whitespace exactly one such occurrence (and a
\* time in range, if any) gives a request; the both-sides-required failure
\* arises only on text with surrounding whitespace.  A returned request never
\* has an empty originQuery or destinationQuery.
C18_SplitsInTwoOrFails ==
    ParseDone =>
        LET n == Cardinality(C18_Separating)
        IN  /\ n # 1 => ~Parsed.ok
            /\ (n # 1 /\ Parsed.message # JourneyTimeError) =>
                  Parsed.message = JourneyPartsError
            /\ Parsed.ok => (Parsed.originQuery # <<>> /\ Parsed.destinationQuery # <<>>)
            /\ (n = 1 /\ ~qText.lead /\ ~qText.trail
                      /\ Parsed.message # JourneyTimeError) => Parsed.ok
            /\ Parsed.message = JourneySidesError =>
                  /\ ~Parsed.ok
                  /\ n = 1
                  /\ qText.lead \/ qText.trail

\* "Leeds to to York" holds two separator tokens and one separating
\* occurrence, and is parsed.
C18_Witness ==
    /\ ParseDone
    /\ qText = Trimmed(<<W("Leeds"), W("to"), W("to"), W("York")>>)
    /\ Cardinality(C18_SeparatorTokens) = 2
    /\ Cardinality(C18_Separating) = 1
    /\ Parsed.ok
    /\ Parsed.originQuery = <<W("Leeds")>>
    /\ Parsed.destinationQuery = <<W("York")>>

--------------------------------------------------------------------------
\* Properties of the adapters (checked under SpecAdapter)

\* The adapter call has ended, the backend having answered at least once.
AdapterAnswered == aPc = "done" /\ Len(aResponses) > 0
Outcome == TheValue(aOutcome)
LastResponse == aResponses[Len(aResponses)]
IsNotFound(resp) == resp.reached /\ resp.status = 404
RaisedProviderError == Outcome.thrown /\ Outcome.error.name = "ProviderError"

\* C19 as stated: an adapter operation that received a 404 response, the
\* backend having answered every request, ends with an empty sequence and
\* never with an error.
C19_AsStated ==
    (/\ AdapterAnswered
     /\ \A i \in 1..Len(aResponses) : aResponses[i].reached
     /\ \E i \in 1..Len(aResponses) : IsNotFound(aResponses[i]))
        => Outcome = Returned(<<>>)

\* C19 (amended): for both adapters and both operations, a 404 response
\* raises nothing, and an operation whose responses were all 404 ends with an
\* empty sequence; the operation raises ProviderError exactly when its last
\* response has another non-success status, or a success status with a body
\* that is not parsable JSON; a 404 response counts as not found, not as a
\* non-success status.
C19_NotFoundIsEmptyData ==
    AdapterAnswered =>
        /\ IsNotFound(LastResponse) => ~Outcome.thrown
        /\ (\A i \in 1..Len(aResponses) : IsNotFound(aResponses[i]))
               => Outcome = Returned(<<>>)
        /\ RaisedProviderError
               <=> /\ LastResponse.reached
                   /\ LastResponse.status # 404
                   /\ \/ ~IsOk(LastResponse.status)
                      \/ ~LastResponse.parsable
        /\ \A i \in 1..(Len(aResponses) - 1) :
               /\ aResponses[i].reached
               /\ \/ IsNotFound(aResponses[i])
                  \/ IsOk(aResponses[i].status) /\ aResponses[i].parsable

\* RttProvider.searchStation got a 404 response to each of several variants
\* and ended with an empty sequence.
C19_Witness ==
    /\ AdapterAnswered
    /\ aProvider = RttName
    /\ aMethod = "searchStation"
    /\ Len(aResponses) >= 2
    /\ \A i \in 1..Len(aResponses) : IsNotFound(aResponses[i])
    /\ Outcome = Returned(<<>>)

\* The variants of the trimmed query in the order of the claim: verbatim,
\* lower-cased, upper-cased, title-cased.
C20_Order ==
    LET cleaned == TrimQuery(aArgs.query)
    IN  <<cleaned, toLowerCase(cleaned), toUpperCase(cleaned), TitleCase(cleaned)>>
C20_Requested(n) == {aRequests[j].key : j \in 1..n}
\* The matches the i-th response carries, <<>> if it carries none.
C20_Matches(i) ==
    LET fetched == fetchJson(RttName, aResponses[i])
    IN  IF fetched.thrown \/ fetched.value.isNull THEN <<>>
        ELSE extractStations(OrEmpty(fetched.value.locations), LimitOf(aArgs.limit))

\* C20: RttProvider.searchStation requests the variants of the trimmed query
\* in the order verbatim, lower-cased, upper-cased, title-cased (each request
\* is for the first variant in that order not requested yet); the first
\* response with at least one match ends the call, which returns these
\* matches, and no variant is requested after it.
C20_VariantsInOrderUntilMatch ==
    (aProvider = RttName /\ aMethod = "searchStation" /\ aPc # "none") =>
        /\ \A i \in 1..Len(aRequests) :
               \E k \in 1..4 :
                   /\ aRequests[i].key = C20_Order[k]
                   /\ C20_Order[k] \notin C20_Requested(i - 1)
                   /\ \A j \in 1..(k - 1) : C20_Order[j] \in C20_Requested(i - 1)
        /\ \A i \in 1..Len(aResponses) :
               C20_Matches(i) # <<>> =>
                   /\ i = Len(aResponses)
                   /\ Len(aRequests) = i
                   /\ aPc = "done"
                   /\ Outcome = Returned(C20_Matches(i))

\* A query in mixed case was requested in its four variants, and the fourth
\* response carried matches, which the call returned.
C20_Witness ==
    /\ aProvider = RttName
    /\ aMethod = "searchStation"
    /\ aPc = "done"
    /\ aArgs.query.casing = "mixed"
    /\ Len(aRequests) = 4
    /\ aRequests[1].key = TrimQuery(aArgs.query)
    /\ aRequests[2].key.casing = "lower"
    /\ aRequests[3].key.casing = "upper"
    /\ aRequests[4].key.casing = "title"
    /\ C20_Matches(4) # <<>>
    /\ Outcome = Returned(C20_Matches(4))

\* The best-guess station object of the i-th response, if the response has
\* one whose code is a non-empty string and which has a non-empty name, the
\* name being its name if that is a string and its description otherwise.
C21_Guess(i) ==
    LET fetched == fetchJson(RttName, aResponses[i])
        location == fetched.value.location
        loc == TheValue(location)
        name == IF IsDefined(loc.name) THEN loc.name ELSE loc.description
    IN  IF fetched.thrown \/ fetched.value.isNull \/ ~IsDefined(location) THEN <<>>
        ELSE IF loc.crs \in {Undefined, Some("")} \/ name \in {Undefined, Some("")}
        THEN <<>>
        ELSE <<StationOf(TheValue(name), TheValue(loc.crs))>>
\* RttProvider.searchStation returned and no response carried a match.
C21_NoMatches ==
    /\ aProvider = RttName
    /\ aMethod = "searchStation"
    /\ AdapterAnswered
    /\ ~Outcome.thrown
    /\ \A i \in 1..Len(aResponses) : C20_Matches(i) = <<>>
\* The station object of the i-th response as a station, if its code is a
\* string and it has a string for a name (its name, else its description).
C21_StringCodeAndName(i) ==
    LET fetched == fetchJson(RttName, aResponses[i])
        location == fetched.value.location
        loc == TheValue(location)
        name == IF IsDefined(loc.name) THEN loc.name ELSE loc.description
    IN  IF fetched.thrown \/ fetched.value.isNull \/ ~IsDefined(location) THEN <<>>
        ELSE IF ~IsDefined(loc.crs) \/ ~IsDefined(name) THEN <<>>
        ELSE <<StationOf(TheValue(name), TheValue(loc.crs))>>

\* C21 as stated: if no variant yields a match and the response to the
\* verbatim query carries a station object with a string code and a string
\* name, the result is that station alone; if no response carries such an
\* object, the result is empty.
C21_AsStated ==
    C21_NoMatches =>
        /\ C21_StringCodeAndName(1) # <<>>
               => Outcome.value = C21_StringCodeAndName(1)
        /\ (\A i \in 1..Len(aResponses) : C21_StringCodeAndName(i) = <<>>)
               => Outcome.value = <<>>

\* C21 (amended): in RttProvider.searchStation, if no variant yields a match,
\* the result is the one-element sequence holding the station of the first
\* response, in request order, that carries a valid station object (a
\* non-empty string code, and a non-empty name taken from name if that is a
\* string and from description otherwise), so that of the verbatim query if it
\* carries one; if no response carries a valid station object, the result is
\* empty.
C21_BestGuessFallback ==
    C21_NoMatches =>
        LET valid == {i \in 1..Len(aResponses) : C21_Guess(i) # <<>>}
        IN  /\ valid = {} => Outcome.value = <<>>
            /\ \A i \in valid :
                   (\A j \in valid : i <= j) => Outcome.value = C21_Guess(i)
            /\ C21_Guess(1) # <<>> => Outcome.value = C21_Guess(1)

\* Four variants were requested without a match; the verbatim response
\* carried a valid station object, a later one another, and the call returned
\* the first.
C21_Witness ==
    /\ C21_NoMatches
    /\ Len(aResponses) = 4
    /\ C21_Guess(1) # <<>>
    /\ \E i \in 2..4 : C21_Guess(i) \notin {<<>>, C21_Guess(1)}
    /\ Outcome.value = C21_Guess(1)

\* The result against a backend that matches names in one casing, for a
\* query with the given spacing: the station, unless the words of the query
\* are more than one space apart and the backend does not match in title
\* case (the title-cased variant alone has its words one space apart).
C22_Resolved(wide, casing) ==
    IF wide /\ casing # "title" THEN <<>> ELSE <<StationOf("York", "YRK")>>

\* C22: against a case-sensitive backend that matches a station name in
\* exactly one casing among lower case, upper case and title case,
\* RttProvider.searchStation returns a result that depends on the letters and
\* the spacing of the query and on the backend, and not on the casing of the
\* query: two queries that differ only in letter case get the same station
\* code, that of the backend's station when the query is its name.
C22_CaseInsensitive ==
    (IsDefined(aBackend) /\ aPc = "done") =>
        Outcome = Returned(C22_Resolved(aArgs.query.wide, TheValue(aBackend)))

\* An upper-case query found the station of a backend that matches in lower
\* case, at the second variant.
C22_Witness ==
    /\ aBackend = Some("lower")
    /\ aPc = "done"
    /\ aArgs.query.casing = "upper"
    /\ Len(aRequests) = 2
    /\ Outcome = Returned(<<StationOf("York", "YRK")>>)

\* RttProvider.getDepartures returned on an answer that carried services.
C23_Answered ==
    /\ aProvider = RttName
    /\ aMethod = "getDepartures"
    /\ AdapterAnswered
    /\ ~Outcome.thrown
    /\ fetchJson(RttName, LastResponse).value.services # Undefined
C23_Services == TheValue(fetchJson(RttName, LastResponse).value.services)
\* Minutes from the start of day 0 to the time h:m of a day.
C23_Instant(day, h, m) == (day * 24 + h) * 60 + m
\* The service has a run date and an aimed departure time, which combine to
\* an instant strictly earlier than the requested time.
C23_Before(service, when) ==
    /\ IsDefined(service.runDate)
    /\ IsDefined(service.locationDetail)
    /\ IsDefined(TheValue(service.locationDetail).gbttBookedDeparture)
    /\ LET aimed == TheValue(TheValue(service.locationDetail).gbttBookedDeparture)
       IN  C23_Instant(TheValue(service.runDate), aimed.hours, aimed.minutes)
               < C23_Instant(when.day, when.hours, when.minutes)

\* C23: RttProvider.getDepartures called with a requested time excludes a
\* service if and only if the service has both a run date and an aimed
\* departure time and their combined instant is strictly earlier than the
\* requested time; without a requested time nothing is excluded.  (The
\* result is the retained services, in order, up to the limit.)
C23_ExcludesExactlyEarlier ==
    C23_Answered =>
        LET retained ==
                SelectSeq(C23_Services,
                          LAMBDA service :
                              ~(/\ IsDefined(aArgs.when)
                                /\ C23_Before(service, TheValue(aArgs.when))))
        IN  Outcome.value
                = Slice([i \in 1..Len(retained) |-> RttDeparture(retained[i])],
                        LimitOf(aArgs.limit))

\* getDepartures of either adapter returned.
DeparturesReturned ==
    /\ aMethod = "getDepartures"
    /\ AdapterAnswered
    /\ ~Outcome.thrown

\* C24: every Departure produced by either adapter has a set, non-empty
\* status, never the empty string (the sentinel "UNKNOWN" stands for a
\* payload without status information).
C24_StatusAlwaysSet ==
    DeparturesReturned =>
        \A i \in 1..Len(Outcome.value) : Outcome.value[i].status # ""

\* The calling points the payload entry behind the i-th Departure reports:
\* callPoints of its locationDetail (RTT), or calling_at of its
\* station_detail, else its own calling_at (TransportAPI); none if that is
\* absent or no array.
C25_Retained ==
    LET payload == fetchJson(aProvider, LastResponse).value
    IN  IF aProvider = RttName
        THEN SelectSeq(OrEmpty(payload.services),
                       LAMBDA service : ~RttSkips(service, aArgs.when))
        ELSE OrEmpty(payload.departures)
C25_Reported(i) ==
    LET entry == C25_Retained[i]
        raw == IF aProvider = RttName
               THEN IF IsDefined(entry.locationDetail)
                    THEN TheValue(entry.locationDetail).callPoints ELSE Undefined
               ELSE IF IsDefined(entry.detail_calling_at)
               THEN entry.detail_calling_at ELSE entry.calling_at
    IN  IF IsDefined(raw) /\ TheValue(raw).isArray THEN TheValue(raw).stops ELSE <<>>
\* The station name, station code and aimed arrival time a reported stop
\* carries, absent names and codes as empty strings.
C25_PointOf(stop) ==
    IF aProvider = RttName
    THEN LET description == IF IsDefined(stop.location)
                            THEN TheValue(stop.location).description ELSE Undefined
             crs == IF IsDefined(stop.location)
                    THEN TheValue(stop.location).crs ELSE Undefined
         IN  CallingPoint(IF description = Undefined THEN "" ELSE description[1],
                          IF crs = Undefined THEN "" ELSE crs[1],
                          IF stop.gbttBookedArrival # Undefined
                          THEN stop.gbttBookedArrival ELSE stop.gbttBookedPass)
    ELSE CallingPoint(IF stop.station_name = Undefined THEN "" ELSE stop.station_name[1],
                      IF stop.station_code = Undefined THEN "" ELSE stop.station_code[1],
                      IF stop.aimed_arrival_time # Undefined
                      THEN stop.aimed_arrival_time ELSE stop.aimed_pass_time)

\* C25: for both adapters, the callingPoints of a Departure have the same
\* length and the same order as the calling points reported in the raw
\* payload: the i-th calling point is built from the i-th reported stop, with
\* no re-sorting, dropping or duplication.
C25_CallingPointsAsReported ==
    DeparturesReturned =>
        \A i \in 1..Len(Outcome.value) :
            LET reported == C25_Reported(i)
                callingPoints == Outcome.value[i].callingPoints
            IN  /\ Len(callingPoints) = Len(reported)
                /\ \A k \in 1..Len(reported) : callingPoints[k] = C25_PointOf(reported[k])

\* RttProvider.getDepartures returned a Departure with four calling points,
\* one of them without a location and two of them equal.
C25_Witness ==
    /\ DeparturesReturned
    /\ aProvider = RttName
    /\ \E i \in 1..Len(Outcome.value) :
           /\ Len(Outcome.value[i].callingPoints) = 4
           /\ Outcome.value[i].callingPoints[2].stationName = ""
           /\ Outcome.value[i].callingPoints[1] = Outcome.value[i].callingPoints[4]
           /\ Outcome.value[i].callingPoints[3].stationCode = "YRK"

--------------------------------------------------------------------------
\* Properties of the worker's configuration (checked under Spec)

\* The request is one whose handling loads the settings: a POST with a JSON
\* body.
LoadsSettings == httpRequest.httpMethod = "POST" /\ httpRequest.json
RttConfigured == env.RTT_USERNAME /\ env.RTT_PASSWORD
TransportApiConfigured == env.TRANSPORT_API_APP_ID /\ env.TRANSPORT_API_APP_KEY
\* One credential of a provider is bound and its other one is not.
HalfConfigured ==
    \/ env.RTT_USERNAME # env.RTT_PASSWORD
    \/ env.TRANSPORT_API_APP_ID # env.TRANSPORT_API_APP_KEY
\* The request ended at the request boundary with the generic response:
\* handleUpdate was not run, no adapter was called, no message was sent, and
\* the response does not hold the error's detail.
C26_Misconfigured ==
    /\ wPc = "done"
    /\ response = Some(Response(500, "Server misconfigured"))
    /\ TheValue(response).text # loadSettings(env).error
    /\ settings = Undefined
    /\ ctxProviders = <<>>
    /\ fbLog = <<>>
    /\ started = <<>>
    /\ sent = <<>>

HandleUpdateRun == wPc \notin {"fetch", "none"} /\ IsDefined(settings)

\* The FallbackResult of an invocation in which no adapter was invoked.
NoAdapterInvoked(r) == r.result = <<>> /\ r.providerName = Undefined /\ r.errors = <<>>

\* C27: whenever handleUpdate is run by the worker, the adapter list it
\* receives is non-empty, holds the RealTimeTrains adapter for RTT's
\* credentials and the TransportAPI adapter for TransportAPI's, RealTimeTrains
\* first when both are configured; every callWithFallback invocation of a
\* handler gets this list and invokes an adapter, so none ends with the
\* outcome of no adapter invoked.
C27_AdaptersNonEmptyPrimaryFirst ==
    HandleUpdateRun =>
        /\ Len(ctxProviders) >= 1
        /\ ctxProviders = (IF RttConfigured THEN <<RttName>> ELSE <<>>)
                              \o (IF TransportApiConfigured
                                  THEN <<TransportApiName>> ELSE <<>>)
        /\ (RttConfigured /\ TransportApiConfigured)
               => ctxProviders = <<RttName, TransportApiName>>
        /\ fbPc # "idle" => providers = ctxProviders
        /\ FbDone => Len(started) >= 1
        /\ \A r \in {fbReturn, originResult, destinationResult, departureResult} :
               IsDefined(r) => ~NoAdapterInvoked(TheValue(r))

\* With both providers configured, a handler's invocation tried RealTimeTrains
\* and then TransportAPI, and returned.
C27_Witness ==
    /\ HandleUpdateRun
    /\ ctxProviders = <<RttName, TransportApiName>>
    /\ providers = ctxProviders
    /\ started = <<1, 2>>
    /\ fbPc = "returned"


\* ---------------------------------------------------------------------
\* Properties of the remembered candidate (checked under SpecFallback)

\* The calls of the invocation that succeeded with an empty result.
C28_EmptySuccesses == {i \in Succeeded : Len(calls[i].result) = 0}

\* The case: retry-on-empty, two or more empty successes, no non-empty one.
C28_Case ==
    /\ FbDone
    /\ retryOnEmpty
    /\ Cardinality(C28_EmptySuccesses) >= 2
    /\ C28_EmptySuccesses = Succeeded

\* C28: with retry-on-empty, when two or more adapters succeed with an empty
\* result and none with a non-empty one, the invocation returns the empty
\* result attributed to the last adapter in list order that succeeded,
\* whatever adapters threw before, between or after them.
C28_LastEmptySuccessAttributed ==
    C28_Case =>
        /\ fbPc = "returned"
        /\ FbResult.providerName = Some(calls[LastSucceeded].name)
        /\ FbResult.providerName = Some(providers[calls[LastSucceeded].pos])
        /\ Len(FbResult.result) = 0
        /\ \A i \in Succeeded : calls[i].pos <= calls[LastSucceeded].pos

\* Two empty successes with a throw between them.
C28_Witness ==
    /\ C28_Case
    /\ Len(calls) = 3
    /\ ~calls[1].threw
    /\ calls[2].threw
    /\ ~calls[3].threw
    /\ FbResult.providerName = Some(providers[3])


\* ---------------------------------------------------------------------
\* Properties of the calls of the journey handler (checked under Spec)

\* The journey handler is past the parse of the journey text.
C29_Journey == PastStart("/journey") /\ IsDefined(jRequest)

\* The journey text was parsed to the request the handler works on.
C29_ParsedRequest ==
    \E now \in Clocks :
        LET parsed == parseJourneyQuery(Trimmed(ArgsText), now)
        IN  /\ parsed.ok
            /\ TheValue(jRequest) = [originQuery |-> parsed.originQuery,
                                     destinationQuery |-> parsed.destinationQuery,
                                     when |-> parsed.when]

\* Both station searches returned at least one candidate.
C29_BothResolved ==
    /\ IsDefined(originResult)
    /\ IsDefined(destinationResult)
    /\ Len(TheValue(originResult).result) > 0
    /\ Len(TheValue(destinationResult).result) > 0

\* C29: for one journey command the handler makes at most three
\* callWithFallback calls, in the order origin search, destination search,
\* departures; the destination search starts only once the origin search has
\* returned and is made even when that search returned no candidates; the
\* departures call is made only after both searches returned a candidate and
\* is given the station codes of the first candidate of each search, the
\* configured default limit and the parsed requested time.
C29_CallsInOrder ==
    C29_Journey =>
        /\ C29_ParsedRequest
        /\ Len(fbLog) \in 1..3
        /\ fbLog[1] = [method |-> "searchStation",
                       args |-> <<TheValue(jRequest).originQuery, 3>>]
        /\ Len(fbLog) >= 2 <=> IsDefined(originResult)
        /\ Len(fbLog) >= 2 =>
               fbLog[2] = [method |-> "searchStation",
                           args |-> <<TheValue(jRequest).destinationQuery, 3>>]
        /\ Len(fbLog) = 3 =>
               /\ C29_BothResolved
               /\ fbLog[3] =
                      [method |-> "getDepartures",
                       args |-> <<TheValue(originResult).result[1].stationCode,
                                  TheValue(destinationResult).result[1].stationCode,
                                  TheValue(settings).defaultResultLimit,
                                  TheValue(jRequest).when>>]
        /\ (wPc = "originSearch" /\ ~FbDone) => Len(fbLog) = 1
        /\ (wPc = "destinationSearch" /\ ~FbDone) => Len(fbLog) = 2

\* The destination search was made after an origin search that returned no
\* candidates, and the handler ended without a departures call.
C29_Witness ==
    /\ C29_Journey
    /\ HandlerEnded
    /\ IsDefined(originResult)
    /\ Len(TheValue(originResult).result) = 0
    /\ IsDefined(destinationResult)
    /\ Len(fbLog) = 2

\* All three calls were made, with a requested time in the departures call.
C29_WitnessDepartures ==
    /\ C29_Journey
    /\ Len(fbLog) = 3
    /\ IsDefined(TheValue(jRequest).when)


\* ---------------------------------------------------------------------
\* Termination of callWithFallback (checked under SpecFallbackLive)

\* The adapters are called in list order without skipping, each at most
\* once, so there are never more calls than adapters.
C30_EachAdapterAtMostOnce ==
    /\ Len(started) <= Len(providers)
    /\ \A j \in 1..Len(started) : started[j] = j
    /\ Len(calls) <= Len(started)
    /\ \A j \in 1..Len(calls) : calls[j].pos = j

\* While an adapter call is pending no statement of callWithFallback can
\* run: there is no timeout, only the settling of the call ends the wait.
C30_OnlySettlingEndsTheWait ==
    fbPc = "awaiting" =>
        /\ inflight = {cur}
        /\ ~ENABLED FbInvoke
        /\ ~ENABLED FbExhausted

\* C30: provided each adapter call completes, every callWithFallback
\* invocation terminates, by returning or by raising AllProvidersFailed; it
\* calls each adapter at most once, in list order without skipping, so it
\* makes at most as many adapter calls as there are adapters; it sets no
\* timeout, so a pending adapter call is ended only by its own settling.
C30_Terminates ==
    /\ []C30_EachAdapterAtMostOnce
    /\ []C30_OnlySettlingEndsTheWait
    /\ <>[]FbDone
    /\ [](fbPc = "raised" => FbException = AllProvidersFailed(errors))

\* An invocation that ended after calling every adapter of a list of three.
C30_Witness ==
    /\ FbDone
    /\ Len(providers) = 3
    /\ Len(started) = 3
    /\ Len(calls) = 3
    /\ fbPc = "returned"
    /\ Len(errors) = 2


\* ---------------------------------------------------------------------
\* Properties of the limit of the adapters (checked under SpecAdapter)

\* An adapter call returned on an answer of the backend.
C31_Returned == AdapterAnswered /\ ~Outcome.thrown

\* The limit the call runs with: the argument, or the default of 5.
C31_Limit == IF aArgs.limit = Undefined THEN 5 ELSE aArgs.limit[1]

\* Whether the entries of result are entries of source, in the order of source.
RECURSIVE C31_InOrder(_, _)
C31_InOrder(result, source) ==
    IF result = <<>> THEN TRUE
    ELSE IF source = <<>> THEN FALSE
    ELSE IF Head(result) = Head(source)
    THEN C31_InOrder(Tail(result), Tail(source))
    ELSE C31_InOrder(result, Tail(source))

\* What the last answer lists, entry by entry, as the adapter reports an
\* entry: stations of locations (RTT) or member (TransportAPI), departures
\* of services (RTT) or departures.all (TransportAPI).
C31_Source ==
    LET payload == fetchJson(aProvider, LastResponse).value
        listed == IF aMethod = "searchStation"
                  THEN IF aProvider = RttName
                       THEN OrEmpty(payload.locations) ELSE OrEmpty(payload.member)
                  ELSE IF aProvider = RttName
                       THEN OrEmpty(payload.services) ELSE OrEmpty(payload.departures)
    IN  [i \in 1..Len(listed) |->
            IF aMethod = "searchStation"
            THEN [name |-> IF aProvider = RttName /\ listed[i].name = Undefined
                           THEN OrBlank(listed[i].description)
                           ELSE OrBlank(listed[i].name),
                  stationCode |-> OrBlank(listed[i].crs)]
            ELSE IF aProvider = RttName THEN RttDeparture(listed[i])
            ELSE parseDeparture(listed[i])]

\* The services of the last answer that the requested-time filter of
\* RttProvider.getDepartures lets through, as departures.
C31_RetainedDepartures ==
    LET services == OrEmpty(fetchJson(RttName, LastResponse).value.services)
        retained == SelectSeq(services, LAMBDA service : ~RttSkips(service, aArgs.when))
    IN  [i \in 1..Len(retained) |-> RttDeparture(retained[i])]

\* The call returned its one best guess, which no list of an answer holds.
C31_BestGuess ==
    /\ aProvider = RttName
    /\ aMethod = "searchStation"
    /\ Len(Outcome.value) = 1
    /\ IsDefined(aFallbackStation)
    /\ Outcome.value[1] = TheValue(aFallbackStation)

\* C31: for a limit of at least 1, searchStation and getDepartures of both
\* adapters return at most limit entries, in source order; in
\* RttProvider.getDepartures the requested-time filter comes before the
\* truncation, so the result is the first limit retained services and an
\* excluded service never counts toward the limit.
C31_AtMostLimitInOrder ==
    (C31_Returned /\ C31_Limit >= 1) =>
        /\ Len(Outcome.value) <= C31_Limit
        /\ C31_BestGuess \/ C31_InOrder(Outcome.value, C31_Source)
        /\ (aProvider = RttName /\ aMethod = "getDepartures") =>
               /\ Len(Outcome.value) =
                      IF Len(C31_RetainedDepartures) < C31_Limit
                      THEN Len(C31_RetainedDepartures) ELSE C31_Limit
               /\ Outcome.value = SubSeq(C31_RetainedDepartures, 1, Len(Outcome.value))

\* RttProvider.getDepartures with limit 2 on three services, the first of
\* them before the requested time: the second and the third are returned.
C31_Witness ==
    /\ C31_Returned
    /\ aProvider = RttName
    /\ aMethod = "getDepartures"
    /\ aArgs.limit = Some(2)
    /\ Len(C31_Source) = 3
    /\ Len(Outcome.value) = 2
    /\ Outcome.value = SubSeq(C31_Source, 2, 3)
    /\ Outcome.value[1] # C31_Source[1]


\* ---------------------------------------------------------------------
\* Properties of failed sendMessage calls (checked under Spec)

\* The texts of the sendMessage calls inside the try block of handleStations
\* and of handleJourney.
C32_TextsInTry ==
    {NoStationsText, StationMatchesText, OriginNotFoundText,
     DestinationNotFoundText, JourneyReplyText}

\* The first sendMessage call of the update was made inside a try block.
C32_FirstInTry ==
    /\ sent # <<>>
    /\ Command \in {"/stations", "/journey"}
    /\ sent[1].message.text \in C32_TextsInTry

\* The unexpected-error message of the command of the update.
C32_Unexpected ==
    Message(IF Command = "/stations" THEN StationsUnexpectedText
            ELSE JourneyUnexpectedText, <<>>)

\* The last sendMessage call of the update failed.
C32_LastFailed == sent # <<>> /\ ~sent[Len(sent)].ok

\* C32: when a sendMessage call inside the try block of handleStations or
\* handleJourney fails, the catch block makes a second call with the
\* unexpected-error text of the same command; a failed call outside the
\* try block, or a failed second call, propagates out of handleUpdate and the
\* worker answers 'Failed to process update'.  So an update has at most two
\* sendMessage calls, and two only when the first one failed.
C32_SecondAttemptOnlyAfterFailure ==
    /\ Len(sent) <= 2
    /\ (C32_FirstInTry /\ ~sent[1].ok) =>
           /\ Len(sent) = 2
           /\ sent[2].message = C32_Unexpected
    /\ Len(sent) = 2 => (C32_FirstInTry /\ ~sent[1].ok)
    /\ C32_LastFailed <=> escaped = Some(TelegramError)
    /\ ~C32_LastFailed => escaped = Undefined
    /\ (wPc = "done" /\ IsDefined(settings)) =>
           response = Some(IF C32_LastFailed
                           THEN Response(500, "Failed to process update")
                           ELSE Response(200, "ok"))

\* The journey reply failed, the second call failed as well, and the worker
\* answered with the failure.
C32_Witness ==
    /\ wPc = "done"
    /\ Command = "/journey"
    /\ Len(sent) = 2
    /\ sent[1].message.text = JourneyReplyText
    /\ sent[2].message.text = JourneyUnexpectedText
    /\ ~sent[2].ok
    /\ response = Some(Response(500, "Failed to process update"))

\* The station reply failed and the second call delivered the
\* unexpected-error text: the worker answered ok.
C32_WitnessRecovered ==
    /\ wPc = "done"
    /\ Command = "/stations"
    /\ Len(sent) = 2
    /\ sent[1].message.text = StationMatchesText
    /\ sent[2].ok
    /\ response = Some(Response(200, "ok"))

\* The aggregate-failure message of the catch block failed: no second call.
C32_WitnessCatchSendFailed ==
    /\ wPc = "done"
    /\ Len(sent) = 1
    /\ sent[1].message.text = StationsAllFailedText
    /\ ~sent[1].ok
    /\ response = Some(Response(500, "Failed to process update"))

==========================================================================
